---------------------------- MODULE Spec2Model ----------------------------
(***************************************************************************)
(* Homologation of electrical line records (ENT, CNE operation,            *)
(* Infotecnica) and the monthly maintenance override, modelled from        *)
(* src/src/data_loader.py, with calcular_rx_transformador of               *)
(* src/src/cargar_transformadores_infotec.py and main of src/main.py.      *)
(*                                                                         *)
(* Conventions.                                                            *)
(*  - A value that may be missing (None / NaN / NaT) is a sequence of      *)
(*    length 0 or 1: <<>> is missing, <<v>> is v.                          *)
(*  - A name is a sequence of one-character strings.                       *)
(*  - A similarity or confidence is an exact rational, kept as an integer  *)
(*    number of 1/Escala units; a value reported by round(x, 1) is an      *)
(*    integer number of tenths.                                            *)
(*  - A date is kept as the integer YYYYMMDD.                               *)
(***************************************************************************)
EXTENDS Integers, Sequences, FiniteSets, TLC

VARIABLES
    pc,               \* which function runs, and where it is
    row_ent,          \* the reference (ENT) row being homologated
    mejor,            \* mejor_match, mejor_confianza, mejor_sim_a/b, match_invertido
    n_vistos,         \* candidates of the pool already iterated
    resultado,        \* the row appended to resultados (missing until emitted)
    mes_trabajo,      \* aplicar_reemplazo_por_mes: the month string
    df_operacion,     \* aplicar_reemplazo_por_mes: operation rows
    df_mantenimiento, \* aplicar_reemplazo_por_mes: maintenance rows
    df_cruce,         \* aplicar_reemplazo_por_mes: the joined rows
    df_resultado,     \* aplicar_reemplazo_por_mes: the returned rows
    funcion,          \* the text function that is called
    entrada,          \* its argument, a string as a sequence of characters
    salida,           \* what it returned (missing until it returns)
    llamadas          \* main: the calls made so far, in order

vars == <<pc, row_ent, mejor, n_vistos, resultado,
          mes_trabajo, df_operacion, df_mantenimiento, df_cruce, df_resultado,
          funcion, entrada, salida, llamadas>>

(***************************************************************************)
(* Missing values                                                          *)
(***************************************************************************)
None == <<>>

Some(v) == <<v>>

notna(x) == x # <<>>

isna(x) == x = <<>>

Val(x) == x[1]

Max(a, b) == IF a >= b THEN a ELSE b

Min(a, b) == IF a <= b THEN a ELSE b

Abs(a) == IF a >= 0 THEN a ELSE 0 - a

(***************************************************************************)
(* Bounds of the model                                                     *)
(***************************************************************************)
\* candidates of a pool iterated for one reference row
MaxPool == 2

\* rows of the maintenance frame
MaxMan == 2

\* padding characters between the name and the voltage of a raw label
MaxRelleno == 2

\* rows of a batch handed to resumen_homologacion
MaxLote == 2

(***************************************************************************)
(* Program constants                                                       *)
(***************************************************************************)
umbral_confianza == 50

LimiteRevision == 80

ToleranciaKV == 5

BonusVoltaje == 2

PenalizacionVoltaje == 3

BonusContenido == 90

DiferenciaTransformador == 5

(***************************************************************************)
(* Names used by the model: normalized bus keys                            *)
(***************************************************************************)
ClavesEnt == { <<"a","b">>, <<"c","d">> }

ClavesOpA == { <<"a","b">>, <<"a","c","b">>, <<"a","c">>, <<"c","d">> }

ClavesOpB == { <<"a","b">>, <<"c","d">> }

ClavesInfotecA == { <<"a","b">>, <<"a","c","d","b">> }

ClavesInfotecB == { <<"d"," ","c">>, <<>> }

\* two long names that differ in their endings: 23 common characters, then
\* 6 and 7 characters of their own
ClaveLargaEnt == [ i \in 1..29 |-> IF i <= 23 THEN "x" ELSE "y" ]

ClaveLargaOp == [ i \in 1..30 |-> IF i <= 23 THEN "x" ELSE "z" ]

\* the pairs (reference key, candidate key) the matchers compare
ParesDeClaves ==
    (ClavesEnt \cup { ClaveLargaEnt })
      \X (ClavesOpA \cup ClavesOpB \cup ClavesInfotecA \cup ClavesInfotecB
            \cup { ClaveLargaOp })

\* keys that are empty or only spaces
ClavesVacias == { <<>>, <<" ">>, <<" ", " ">> }

\* the pairs of keys calcular_similitud_barras is applied to: those of the
\* matchers, a pair whose first key has a space, and pairs with an empty key
ParesDeSimilitud ==
    ParesDeClaves
    \cup { << <<"a", " ", "b">>, <<"c", "a", "b">> >> }
    \cup (ClavesVacias \X (ClavesOpA \cup ClavesVacias))
    \cup ((ClavesEnt \cup ClavesInfotecA) \X ClavesVacias)

RECURSIVE Mcd(_, _)
Mcd(a, b) == IF b = 0 THEN a ELSE Mcd(b, a % b)

RECURSIVE McmDe(_)
McmDe(S) ==
    IF S = {} THEN 1
    ELSE LET x == CHOOSE y \in S : TRUE
             m == McmDe(S \ {x})
         IN (m * x) \div Mcd(m, x)

(***************************************************************************)
(* rapidfuzz.fuzz and calcular_similitud_barras                            *)
(***************************************************************************)
\* str.replace(' ', '')
SinEspacios(s) == SelectSeq(s, LAMBDA c : c # " ")

\* longest common subsequence: the Indel distance is len1 + len2 - 2*lcs
\* (a common prefix is always part of one, and so is taken in one step)
RECURSIVE Lcs(_, _)
Lcs(a, b) ==
    IF a = <<>> \/ b = <<>> THEN 0
    ELSE IF Head(a) = Head(b)
         THEN LET k == CHOOSE n \in 1..Min(Len(a), Len(b)) :
                          /\ SubSeq(a, 1, n) = SubSeq(b, 1, n)
                          /\ (n < Min(Len(a), Len(b)) => a[n + 1] # b[n + 1])
              IN k + Lcs(SubSeq(a, k + 1, Len(a)), SubSeq(b, k + 1, Len(b)))
    ELSE IF \A i \in 1..Len(b) : b[i] # Head(a) THEN Lcs(Tail(a), b)
    ELSE IF \A i \in 1..Len(a) : a[i] # Head(b) THEN Lcs(a, Tail(b))
    ELSE Max(Lcs(Tail(a), b), Lcs(a, Tail(b)))

\* Contiene with the empty text contained in no text
ContieneNoVacia(a, b) ==
    /\ a # <<>>
    /\ \E i \in 0..(Len(b) - Len(a)) : SubSeq(b, i + 1, i + Len(a)) = a

\* a in b
Contiene(a, b) ==
    \E i \in 0..(Len(b) - Len(a)) : SubSeq(b, i + 1, i + Len(a)) = a

\* code point order of the characters the keys use
Orden(c) ==
    CASE c = " " -> 0
      [] c = "a" -> 1
      [] c = "b" -> 2
      [] c = "c" -> 3
      [] c = "d" -> 4
      [] c = "x" -> 5
      [] c = "y" -> 6
      [] c = "z" -> 7
      [] OTHER   -> 8

\* a < b as Python compares strings
RECURSIVE Menor(_, _)
Menor(a, b) ==
    IF b = <<>> THEN FALSE
    ELSE IF a = <<>> THEN TRUE
    ELSE IF Orden(Head(a)) # Orden(Head(b)) THEN Orden(Head(a)) < Orden(Head(b))
    ELSE Menor(Tail(a), Tail(b))

\* str.split(): the maximal runs of non-space characters
RECURSIVE Split(_)
Split(s) ==
    IF s = <<>> THEN <<>>
    ELSE IF \A i \in 1..Len(s) : s[i] # " " THEN << s >>
    ELSE IF Head(s) = " " THEN Split(Tail(s))
    ELSE LET resto == Split(Tail(s))
         IN IF Len(s) > 1 /\ s[2] # " "
            THEN <<  <<Head(s)>> \o Head(resto) >> \o Tail(resto)
            ELSE << <<Head(s)>> >> \o resto

\* sorted(tokens): insertion into a sorted list
RECURSIVE Insertar(_, _)
Insertar(t, l) ==
    IF l = <<>> THEN <<t>>
    ELSE IF Menor(Head(l), t) THEN <<Head(l)>> \o Insertar(t, Tail(l))
    ELSE <<t>> \o l

RECURSIVE Sorted(_)
Sorted(l) == IF l = <<>> THEN <<>> ELSE Insertar(Head(l), Sorted(Tail(l)))

\* " ".join(tokens)
RECURSIVE Join(_)
Join(l) ==
    IF l = <<>> THEN <<>>
    ELSE IF Len(l) = 1 THEN Head(l)
    ELSE Head(l) \o <<" ">> \o Join(Tail(l))

\* the denominator of 200*lcs/(len1+len2) in lowest terms
Denominador(a, b) ==
    IF Len(a) + Len(b) = 0 THEN 1
    ELSE (Len(a) + Len(b)) \div Mcd(Len(a) + Len(b), 200 * Lcs(a, b))

\* the unit of the scores is 1/Escala
Escala == 177

\* every ratio that calcular_similitud_barras takes of two keys of the model
\* is a whole number of 1/Escala, and no smaller unit does
EscalaExacta ==
    Escala =
    McmDe({ Denominador(SinEspacios(p[1]), SinEspacios(p[2])) :
                p \in ParesDeSimilitud }
          \cup
          { Denominador(Join(Sorted(Split(p[1]))), Join(Sorted(Split(p[2])))) :
                p \in ParesDeSimilitud })

\* fuzz.ratio: 100 * (1 - indel/(len1+len2)), 100 for two empty strings
fuzz_ratio(a, b) ==
    IF Len(a) + Len(b) = 0 THEN 100 * Escala
    ELSE (200 * Lcs(a, b) * Escala) \div (Len(a) + Len(b))

\* fuzz.token_sort_ratio
fuzz_token_sort_ratio(a, b) ==
    fuzz_ratio(Join(Sorted(Split(a))), Join(Sorted(Split(b))))

\* calcular_similitud_barras without the bonus for a key contained in the
\* other
calcular_similitud_barras_sin_bonus(barra_ent, barra_op) ==
    Max(fuzz_ratio(SinEspacios(barra_ent), SinEspacios(barra_op)),
        fuzz_token_sort_ratio(barra_ent, barra_op))

calcular_similitud_barras(barra_ent, barra_op) ==
    LET ent_sin_espacios == SinEspacios(barra_ent)
        op_sin_espacios  == SinEspacios(barra_op)
        score_directo    == fuzz_ratio(ent_sin_espacios, op_sin_espacios)
        score_token      == fuzz_token_sort_ratio(barra_ent, barra_op)
        score_sin_espacios ==
            IF Contiene(ent_sin_espacios, op_sin_espacios)
               \/ Contiene(op_sin_espacios, ent_sin_espacios)
            THEN Max(score_directo, BonusContenido * Escala)
            ELSE score_directo
    IN Max(score_sin_espacios, score_token)

\* the similarities of the pairs of keys in P, as an explicit table
RECURSIVE TablaSimilitud(_)
TablaSimilitud(P) ==
    IF P = {} THEN <<>>
    ELSE LET p == CHOOSE q \in P : TRUE
         IN (p :> calcular_similitud_barras(p[1], p[2]))
            @@ TablaSimilitud(P \ {p})

\* the similarities of the keys of the model, computed once
Similitud == TablaSimilitud(ParesDeClaves)

\* round(x, 1) of x units, in tenths (a tie goes to the even tenth)
Round1(x) ==
    LET q == (10 * x) \div Escala
        r == (10 * x) % Escala
    IN IF 2 * r > Escala THEN q + 1
       ELSE IF 2 * r < Escala THEN q
       ELSE IF q % 2 = 0 THEN q ELSE q + 1

(***************************************************************************)
(* The rows the matchers work on                                           *)
(***************************************************************************)
VoltajesRef == { None, Some(110) }

VoltajesCand == { None, Some(115), Some(116) }

VoltajesCandB == { None, Some(115) }

\* the secondary voltage of a transformer of Infotecnica
VoltajesSecundarios == VoltajesCand \cup { Some(23) }

\* the voltages of the two sides of the ENT name
VoltajesNombre ==
    { <<None, None>>, <<Some(110), Some(110)>>, <<Some(110), None>>,
      <<Some(110), Some(23)>> }

\* es_transformador(nombre) can only be True when both sides of the name
\* give a voltage (the same searches as extraer_voltajes_de_nombre_ent) and
\* the two voltages differ by more than 5
PuedeSerTransformador(vn) ==
    /\ notna(vn[1]) /\ notna(vn[2])
    /\ Abs(Val(vn[1]) - Val(vn[2])) > DiferenciaTransformador

CircuitosEnt == { None, Some(1) }

CircuitosCand == { None, Some(1), Some(2) }

\* a row of df_ent as homologar_lineas reads it (lines 892-898): the two
\* normalized bus keys, the V [kV] column, and what the name gives
\* (extraer_circuito_ent, extraer_voltajes_de_nombre_ent, es_transformador)
FilasEnt ==
    { [ barra_a_ent      |-> a,
        barra_b_ent      |-> b,
        voltaje_kv       |-> v,
        circuito_ent     |-> c,
        voltaje_a_nombre |-> vn[1],
        voltaje_b_nombre |-> vn[2],
        es_transformador |-> PuedeSerTransformador(vn) /\ t ] :
      a \in ClavesEnt, b \in ClavesEnt, v \in VoltajesRef,
      c \in CircuitosEnt, vn \in VoltajesNombre, t \in BOOLEAN }
    \cup
    { [ barra_a_ent      |-> ClaveLargaEnt,
        barra_b_ent      |-> ClaveLargaEnt,
        voltaje_kv       |-> v,
        circuito_ent     |-> None,
        voltaje_a_nombre |-> vn[1],
        voltaje_b_nombre |-> vn[2],
        es_transformador |-> PuedeSerTransformador(vn) /\ t ] :
      v \in VoltajesRef, vn \in VoltajesNombre, t \in BOOLEAN }

\* an entry of lineas_op_info (lines 866-886); 'voltaje' is voltaje_a
LineasOpInfo ==
    [ barra_a   : ClavesOpA,
      barra_b   : ClavesOpB,
      voltaje_a : VoltajesCand,
      voltaje_b : VoltajesCandB,
      circuito  : CircuitosCand ]
    \cup
    [ barra_a   : { ClaveLargaOp },
      barra_b   : { ClaveLargaOp },
      voltaje_a : VoltajesCand,
      voltaje_b : VoltajesCandB,
      circuito  : { None } ]

\* an entry of infotec_info (lines 1116-1147): a line has one voltage and
\* voltaje_secundario None; a transformer has no circuit and its
\* voltaje_secundario is the voltaje_b column (a number or NaN, never None)
InfotecInfo ==
    [ tipo_instalacion   : {"linea"},
      barra_a            : ClavesInfotecA,
      barra_b            : ClavesInfotecB,
      voltaje            : VoltajesCand,
      voltaje_secundario : {None},
      circuito           : CircuitosCand ]
    \cup
    [ tipo_instalacion   : {"trafo_2d"},
      barra_a            : ClavesInfotecA,
      barra_b            : ClavesInfotecB,
      voltaje            : VoltajesCand,
      voltaje_secundario : VoltajesSecundarios,
      circuito           : {None} ]

(***************************************************************************)
(* homologar_lineas and homologar_con_infotecnica                          *)
(***************************************************************************)
\* lines 900-905 and 1161-1165
MejorInicial ==
    [ mejor_match     |-> None,
      mejor_confianza |-> 0,
      mejor_sim_a     |-> 0,
      mejor_sim_b     |-> 0,
      match_invertido |-> FALSE ]

\* Puntuar with the tie given to the swapped orientation (> for >=)
PuntuarEmpateInvertido(barra_a_ent, barra_b_ent, barra_a, barra_b) ==
    LET sim_a     == Similitud[<<barra_a_ent, barra_a>>]
        sim_b     == Similitud[<<barra_b_ent, barra_b>>]
        confianza_normal == Min(sim_a, sim_b)
        sim_a_inv == Similitud[<<barra_a_ent, barra_b>>]
        sim_b_inv == Similitud[<<barra_b_ent, barra_a>>]
        confianza_invertida == Min(sim_a_inv, sim_b_inv)
    IN IF confianza_normal > confianza_invertida
       THEN [ confianza |-> confianza_normal, sim_a |-> sim_a,
              sim_b |-> sim_b, invertido |-> FALSE,
              confianza_normal |-> confianza_normal,
              confianza_invertida |-> confianza_invertida ]
       ELSE [ confianza |-> confianza_invertida, sim_a |-> sim_a_inv,
              sim_b |-> sim_b_inv, invertido |-> TRUE,
              confianza_normal |-> confianza_normal,
              confianza_invertida |-> confianza_invertida ]

\* lines 913-932 and 1189-1207: both orientations, the better one kept
Puntuar(barra_a_ent, barra_b_ent, barra_a, barra_b) ==
    LET sim_a     == Similitud[<<barra_a_ent, barra_a>>]
        sim_b     == Similitud[<<barra_b_ent, barra_b>>]
        confianza_normal == Min(sim_a, sim_b)
        sim_a_inv == Similitud[<<barra_a_ent, barra_b>>]
        sim_b_inv == Similitud[<<barra_b_ent, barra_a>>]
        confianza_invertida == Min(sim_a_inv, sim_b_inv)
    IN IF confianza_normal >= confianza_invertida
       THEN [ confianza |-> confianza_normal, sim_a |-> sim_a,
              sim_b |-> sim_b, invertido |-> FALSE,
              confianza_normal |-> confianza_normal,
              confianza_invertida |-> confianza_invertida ]
       ELSE [ confianza |-> confianza_invertida, sim_a |-> sim_a_inv,
              sim_b |-> sim_b_inv, invertido |-> TRUE,
              confianza_normal |-> confianza_normal,
              confianza_invertida |-> confianza_invertida ]

\* line 876: 'voltaje' is kept equal to voltaje_a
VoltajeOp(info_op) == info_op.voltaje_a

\* PasaVoltajeOp with the filter applied to the other side of the candidate
PasaVoltajeOpOtroLado(row, info_op) ==
    ~ ( /\ notna(row.voltaje_kv)
        /\ notna(info_op.voltaje_b)
        /\ Abs(Val(row.voltaje_kv) - Val(info_op.voltaje_b)) > ToleranciaKV )

\* lines 909-911: the candidate survives the voltage filter
PasaVoltajeOp(row, info_op) ==
    ~ ( /\ notna(row.voltaje_kv)
        /\ notna(VoltajeOp(info_op))
        /\ Abs(Val(row.voltaje_kv) - Val(VoltajeOp(info_op))) > ToleranciaKV )

\* AjusteVoltaje with the bonus given when either side lines up (or for and)
AjusteVoltajeUnLado(row, info_op, invertido) ==
    IF notna(row.voltaje_a_nombre) /\ notna(row.voltaje_b_nombre)
       /\ notna(info_op.voltaje_a) /\ notna(info_op.voltaje_b)
    THEN LET va == Val(row.voltaje_a_nombre)
             vb == Val(row.voltaje_b_nombre)
             coincide_a == IF invertido
                           THEN Abs(va - Val(info_op.voltaje_b)) <= ToleranciaKV
                           ELSE Abs(va - Val(info_op.voltaje_a)) <= ToleranciaKV
             coincide_b == IF invertido
                           THEN Abs(vb - Val(info_op.voltaje_a)) <= ToleranciaKV
                           ELSE Abs(vb - Val(info_op.voltaje_b)) <= ToleranciaKV
         IN IF coincide_a \/ coincide_b THEN BonusVoltaje * Escala
            ELSE 0 - PenalizacionVoltaje * Escala
    ELSE 0

\* lines 934-954: the adjustment by the voltages of the ENT name
AjusteVoltaje(row, info_op, invertido) ==
    IF notna(row.voltaje_a_nombre) /\ notna(row.voltaje_b_nombre)
       /\ notna(info_op.voltaje_a) /\ notna(info_op.voltaje_b)
    THEN LET va == Val(row.voltaje_a_nombre)
             vb == Val(row.voltaje_b_nombre)
             coincide_a == IF invertido
                           THEN Abs(va - Val(info_op.voltaje_b)) <= ToleranciaKV
                           ELSE Abs(va - Val(info_op.voltaje_a)) <= ToleranciaKV
             coincide_b == IF invertido
                           THEN Abs(vb - Val(info_op.voltaje_a)) <= ToleranciaKV
                           ELSE Abs(vb - Val(info_op.voltaje_b)) <= ToleranciaKV
         IN IF coincide_a /\ coincide_b THEN BonusVoltaje * Escala
            ELSE 0 - PenalizacionVoltaje * Escala
    ELSE 0

\* Reemplazar with an equal score also replacing the best (>= for >)
ReemplazarConEmpate(m, confianza, p, info) ==
    IF confianza >= m.mejor_confianza
    THEN [ mejor_match     |-> Some(info),
           mejor_confianza |-> confianza,
           mejor_sim_a     |-> p.sim_a,
           mejor_sim_b     |-> p.sim_b,
           match_invertido |-> p.invertido ]
    ELSE m

\* lines 956-961 and 1209-1213: a strictly better candidate replaces the best
Reemplazar(m, confianza, p, info) ==
    IF confianza > m.mejor_confianza
    THEN [ mejor_match     |-> Some(info),
           mejor_confianza |-> confianza,
           mejor_sim_a     |-> p.sim_a,
           mejor_sim_b     |-> p.sim_b,
           match_invertido |-> p.invertido ]
    ELSE m

\* IteracionOp with a candidate below umbral_confianza never taken
IteracionOpConUmbral(row, m, info_op) ==
    IF ~ PasaVoltajeOp(row, info_op) THEN m
    ELSE LET p == Puntuar(row.barra_a_ent, row.barra_b_ent,
                          info_op.barra_a, info_op.barra_b)
             confianza == p.confianza + AjusteVoltaje(row, info_op, p.invertido)
         IN IF confianza < umbral_confianza * Escala THEN m
            ELSE Reemplazar(m, confianza, p, info_op)

\* lines 907-961: one iteration of the loop over lineas_op_info
IteracionOp(row, m, info_op) ==
    IF ~ PasaVoltajeOp(row, info_op) THEN m
    ELSE LET p == Puntuar(row.barra_a_ent, row.barra_b_ent,
                          info_op.barra_a, info_op.barra_b)
             confianza == p.confianza + AjusteVoltaje(row, info_op, p.invertido)
         IN Reemplazar(m, confianza, p, info_op)

\* lines 1156-1158: row.get('voltaje_a_ent', row.get('voltaje_kv')) on a row
\* of homologar_lineas, which has no voltaje_a_ent / voltaje_b_ent column
voltaje_a_ent(row) ==
    IF "voltaje_a_ent" \in DOMAIN row THEN row.voltaje_a_ent ELSE row.voltaje_kv

\* voltaje_b_ent read from the voltage of side B of the reference name
voltaje_b_ent_del_nombre(row) == row.voltaje_b_nombre

voltaje_b_ent(row) ==
    IF "voltaje_b_ent" \in DOMAIN row THEN row.voltaje_b_ent ELSE row.voltaje_kv

\* lines 1169-1187: the candidate survives the voltage filter
PasaVoltajeInfotec(row, info) ==
    IF info.tipo_instalacion # "linea"
    THEN /\ ~ ( /\ notna(voltaje_a_ent(row)) /\ notna(info.voltaje)
                /\ Abs(Val(voltaje_a_ent(row)) - Val(info.voltaje)) > ToleranciaKV )
         /\ ~ ( /\ notna(voltaje_b_ent(row)) /\ notna(info.voltaje_secundario)
                /\ Abs(Val(voltaje_b_ent(row)) - Val(info.voltaje_secundario))
                       > ToleranciaKV )
    ELSE ~ ( /\ notna(voltaje_a_ent(row)) /\ notna(info.voltaje)
             /\ Abs(Val(voltaje_a_ent(row)) - Val(info.voltaje)) > ToleranciaKV )

\* lines 1167-1213: one iteration of the loop over infotec_info
IteracionInfotec(row, m, info) ==
    IF ~ PasaVoltajeInfotec(row, info) THEN m
    ELSE LET p == Puntuar(row.barra_a_ent, row.barra_b_ent,
                          info.barra_a, info.barra_b)
         IN Reemplazar(m, p.confianza, p, info)

\* lines 963-997: the row homologar_lineas appends
ResultadoLineas(row, m) ==
    [ funcion           |-> "homologar_lineas",
      es_transformador  |-> row.es_transformador,
      match             |-> m.mejor_match,
      confianza         |-> Round1(m.mejor_confianza),
      sim_barra_a       |-> Round1(m.mejor_sim_a),
      sim_barra_b       |-> Round1(m.mejor_sim_b),
      match_invertido   |-> IF notna(m.mejor_match)
                            THEN Some(m.match_invertido) ELSE None,
      requiere_revision |-> /\ umbral_confianza * Escala <= m.mejor_confianza
                            /\ m.mejor_confianza < LimiteRevision * Escala,
      circuito_ent      |-> row.circuito_ent,
      circuito_match    |-> IF notna(m.mejor_match)
                            THEN Val(m.mejor_match).circuito ELSE None,
      voltaje_kv        |-> row.voltaje_kv ]

\* lines 1238-1277: the row homologar_con_infotecnica appends
ResultadoInfotec(row, m) ==
    [ funcion           |-> "homologar_con_infotecnica",
      match             |-> m.mejor_match,
      confianza         |-> Round1(m.mejor_confianza),
      circuito_ent      |-> row.circuito_ent,
      circuito_match    |-> IF notna(m.mejor_match)
                            THEN Val(m.mejor_match).circuito ELSE None,
      voltaje_kv        |-> voltaje_a_ent(row) ]

(***************************************************************************)
(* aplicar_reemplazo_por_mes.  Dates are integers YYYYMMDD, a missing date *)
(* (NaT) and a missing number (NaN) are None; the month is the string the  *)
(* caller passes, as a sequence of characters.                             *)
(***************************************************************************)
Digito(c) ==
    CASE c = "0" -> 0 [] c = "1" -> 1 [] c = "2" -> 2 [] c = "3" -> 3
      [] c = "4" -> 4 [] c = "5" -> 5 [] c = "6" -> 6 [] c = "7" -> 7
      [] c = "8" -> 8 [] c = "9" -> 9

RECURSIVE Entero(_)
Entero(s) ==
    IF s = <<>> THEN 0
    ELSE 10 * Entero(SubSeq(s, 1, Len(s) - 1)) + Digito(s[Len(s)])

EsDigito(c) == c \in { "0", "1", "2", "3", "4", "5", "6", "7", "8", "9" }

\* the fields of a text separated by hyphens
RECURSIVE Campos(_)
Campos(texto) ==
    IF \A i \in 1..Len(texto) : texto[i] # "-" THEN << texto >>
    ELSE LET k == CHOOSE i \in 1..Len(texto) :
                     /\ texto[i] = "-"
                     /\ \A j \in 1..(i - 1) : texto[j] # "-"
         IN << SubSeq(texto, 1, k - 1) >>
               \o Campos(SubSeq(texto, k + 1, Len(texto)))

\* pd.to_datetime of a text of digit fields year-month[-day]: the month and
\* the day may have one digit, a missing day is the first of the month
to_datetime(texto) ==
    LET campos == Campos(texto)
    IN 10000 * Entero(campos[1])
         + 100 * Entero(campos[2])
         + (IF Len(campos) >= 3 THEN Entero(campos[3]) ELSE 1)

\* line 421: the first day of the working month
fecha_trabajo(mes) == to_datetime(mes \o <<"-", "0", "1">>)

Meses ==
    { <<"2", "0", "2", "5", "-", "0", "2">>,
      <<"2", "0", "2", "5", "-", "0", "3">>,
      <<"2", "0", "2", "5", "-", "0", "4">> }

\* month strings that are not of the form YYYY-MM
MesesMalFormados ==
    { <<"2", "0", "2", "5">>,
      <<"2", "0", "2", "5", "-", "6">> }

\* main.py validar_mes: re.match of ^\d{4}-(0[1-9]|1[0-2])$, where $ matches
\* at the end of the string and before a newline that ends the string
validar_mes(mes) ==
    /\ \/ Len(mes) = 7
       \/ Len(mes) = 8 /\ mes[8] = "\n"
    /\ \A i \in 1..4 : EsDigito(mes[i])
    /\ mes[5] = "-"
    /\ \/ mes[6] = "0" /\ mes[7] \in { "1", "2", "3", "4", "5", "6", "7", "8", "9" }
       \/ mes[6] = "1" /\ mes[7] \in { "0", "1", "2" }

FechasOperacion == { None, Some(20250301) }

FechasMantenimiento == { None, Some(20250301) }

\* one operation line; LinFOpe is missing when the file holds neither T nor F
FilasOperacion ==
    [ LinNom : { "L1" }, LinFOpe : { None, Some(TRUE), Some(FALSE) },
      LinFecOpeIni : FechasOperacion, LinR : { Some(10) }, LinX : { Some(20) } ]

\* windows of that line, and one window of a line absent from operation
FilasMantenimiento ==
    [ LinNom : { "L1" }, LinFMan : { Some(TRUE), Some(FALSE) },
      LinFecIni : FechasMantenimiento, LinFecFin : FechasMantenimiento,
      LinR : { None, Some(11) }, LinX : { None, Some(21) } ]
    \cup
    [ LinNom : { "L2" }, LinFMan : { Some(TRUE) },
      LinFecIni : { None }, LinFecFin : { None },
      LinR : { Some(11) }, LinX : { Some(21) } ]

SecuenciasHasta(S, n) == UNION { [1..k -> S] : k \in 0..n }

\* line 415
LineasOperativas(df) == SelectSeq(df, LAMBDA r : r.LinFOpe = Some(TRUE))

\* every maintenance row kept, valid or not
MantenimientosSinFiltrar(df) == SelectSeq(df, LAMBDA w : TRUE)

\* line 418
MantenimientosValidos(df) == SelectSeq(df, LAMBDA w : w.LinFMan = Some(TRUE))

\* a line starting on the first day of the month counted as not yet existing
LineasExistentesEstricto(df, fecha) ==
    SelectSeq(df, LAMBDA r : \/ isna(r.LinFecOpeIni)
                             \/ Val(r.LinFecOpeIni) < fecha)

\* lines 425-428
LineasExistentes(df, fecha) ==
    SelectSeq(df, LAMBDA r : \/ isna(r.LinFecOpeIni)
                             \/ Val(r.LinFecOpeIni) <= fecha)

\* a row of the left join that found the maintenance row w
FilaConMantenimiento(r, w) ==
    [ LinNom |-> r.LinNom, LinFOpe |-> r.LinFOpe,
      LinFecOpeIni |-> r.LinFecOpeIni, LinR |-> r.LinR, LinX |-> r.LinX,
      man_LinFMan |-> w.LinFMan, man_LinFecIni |-> w.LinFecIni,
      man_LinFecFin |-> w.LinFecFin, man_LinR |-> w.LinR,
      man_LinX |-> w.LinX, tiene_mantenimiento |-> TRUE ]

\* a row of the left join that found no maintenance row
FilaSinMantenimiento(r) ==
    [ LinNom |-> r.LinNom, LinFOpe |-> r.LinFOpe,
      LinFecOpeIni |-> r.LinFecOpeIni, LinR |-> r.LinR, LinX |-> r.LinX,
      man_LinFMan |-> None, man_LinFecIni |-> None,
      man_LinFecFin |-> None, man_LinR |-> None,
      man_LinX |-> None, tiene_mantenimiento |-> FALSE ]

\* the rows the left join gives for one operation row, in maintenance order
CruceDeFila(r, df_man) ==
    LET iguales == SelectSeq(df_man, LAMBDA w : w.LinNom = r.LinNom)
    IN IF iguales = <<>>
       THEN << FilaSinMantenimiento(r) >>
       ELSE [ i \in 1..Len(iguales) |-> FilaConMantenimiento(r, iguales[i]) ]

RECURSIVE cruzar_operacion_mantenimiento(_, _)
cruzar_operacion_mantenimiento(df_op, df_man) ==
    IF df_op = <<>> THEN <<>>
    ELSE CruceDeFila(Head(df_op), df_man)
           \o cruzar_operacion_mantenimiento(Tail(df_op), df_man)

\* verificar_reemplazo with the last day of the window excluded
verificar_reemplazo_fin_excluido(row, fecha) ==
    IF ~ row.tiene_mantenimiento THEN FALSE
    ELSE IF row.man_LinFMan = Some(FALSE) THEN FALSE
    ELSE IF isna(row.man_LinFecIni) /\ isna(row.man_LinFecFin) THEN TRUE
    ELSE LET inicio_ok == \/ isna(row.man_LinFecIni)
                          \/ fecha >= Val(row.man_LinFecIni)
             fin_ok    == \/ isna(row.man_LinFecFin)
                          \/ fecha < Val(row.man_LinFecFin)
         IN inicio_ok /\ fin_ok

\* lines 441-461
verificar_reemplazo(row, fecha) ==
    IF ~ row.tiene_mantenimiento THEN FALSE
    ELSE IF row.man_LinFMan = Some(FALSE) THEN FALSE
    ELSE IF isna(row.man_LinFecIni) /\ isna(row.man_LinFecFin) THEN TRUE
    ELSE LET inicio_ok == \/ isna(row.man_LinFecIni)
                          \/ fecha >= Val(row.man_LinFecIni)
             fin_ok    == \/ isna(row.man_LinFecFin)
                          \/ fecha <= Val(row.man_LinFecFin)
         IN inicio_ok /\ fin_ok

\* the maintenance value taken whenever the override is active
ValorSinRespaldo(hay_reemplazo, man_valor, valor) ==
    IF hay_reemplazo THEN man_valor ELSE valor

\* lines 489-510: the value of LinR / LinX after the replacement loop
ValorFinal(hay_reemplazo, man_valor, valor) ==
    IF hay_reemplazo /\ notna(man_valor) THEN man_valor ELSE valor

\* ValorOriginal with the operation value saved for every active override,
\* whether or not the window carries the value
ValorOriginalSiActivo(hay_reemplazo, man_valor, valor) ==
    IF hay_reemplazo THEN valor ELSE None

\* lines 489-510: the operation value saved when it is replaced
ValorOriginal(hay_reemplazo, man_valor, valor) ==
    IF hay_reemplazo /\ notna(man_valor) THEN valor ELSE None

\* lines 463-510: the returned row for one joined row
FilaResultado(row, mes, fecha) ==
    LET hay_reemplazo == verificar_reemplazo(row, fecha)
    IN [ LinNom |-> row.LinNom,
         LinR |-> ValorFinal(hay_reemplazo, row.man_LinR, row.LinR),
         LinX |-> ValorFinal(hay_reemplazo, row.man_LinX, row.LinX),
         LinFecOpeIni |-> row.LinFecOpeIni,
         man_LinFecIni |-> row.man_LinFecIni,
         man_LinFecFin |-> row.man_LinFecFin,
         mes_trabajo |-> mes,
         hay_reemplazo |-> hay_reemplazo,
         fuente |-> IF hay_reemplazo THEN "mantenimiento" ELSE "operacion",
         LinR_operacion_original |->
             ValorOriginal(hay_reemplazo, row.man_LinR, row.LinR),
         LinX_operacion_original |->
             ValorOriginal(hay_reemplazo, row.man_LinX, row.LinX) ]

\* lines 414-431: the filters and the join
Cruce(mes, df_op, df_man) ==
    cruzar_operacion_mantenimiento(
        LineasExistentes(LineasOperativas(df_op), fecha_trabajo(mes)),
        MantenimientosValidos(df_man))

\* main is not running
PrincipalSinUso == llamadas = <<>>

\* no text function is under call
TextoSinUso ==
    /\ funcion = ""
    /\ entrada = <<>>
    /\ salida = None

ReemplazoSinUso ==
    /\ mes_trabajo = None
    /\ df_operacion = <<>>
    /\ df_mantenimiento = <<>>
    /\ df_cruce = <<>>
    /\ df_resultado = <<>>

\* one reference row, handed to one of the two matchers
Init ==
    /\ EscalaExacta
    /\ pc \in {"homologar_lineas", "homologar_con_infotecnica"}
    /\ row_ent \in FilasEnt
    /\ mejor = MejorInicial
    /\ n_vistos = 0
    /\ resultado = None
    /\ ReemplazoSinUso
    /\ TextoSinUso
    /\ PrincipalSinUso

IterarOp ==
    /\ pc = "homologar_lineas"
    /\ n_vistos < MaxPool
    /\ \E info_op \in LineasOpInfo :
          mejor' = IteracionOp(row_ent, mejor, info_op)
    /\ n_vistos' = n_vistos + 1
    /\ UNCHANGED <<pc, row_ent, resultado,
                   mes_trabajo, df_operacion, df_mantenimiento,
                   df_cruce, df_resultado, funcion, entrada, salida,
                   llamadas>>

EmitirLineas ==
    /\ pc = "homologar_lineas"
    /\ resultado' = Some(ResultadoLineas(row_ent, mejor))
    /\ pc' = "fin"
    /\ UNCHANGED <<row_ent, mejor, n_vistos,
                   mes_trabajo, df_operacion, df_mantenimiento,
                   df_cruce, df_resultado, funcion, entrada, salida,
                   llamadas>>

IterarInfotec ==
    /\ pc = "homologar_con_infotecnica"
    /\ n_vistos < MaxPool
    /\ \E info \in InfotecInfo :
          mejor' = IteracionInfotec(row_ent, mejor, info)
    /\ n_vistos' = n_vistos + 1
    /\ UNCHANGED <<pc, row_ent, resultado,
                   mes_trabajo, df_operacion, df_mantenimiento,
                   df_cruce, df_resultado, funcion, entrada, salida,
                   llamadas>>

EmitirInfotec ==
    /\ pc = "homologar_con_infotecnica"
    /\ resultado' = Some(ResultadoInfotec(row_ent, mejor))
    /\ pc' = "fin"
    /\ UNCHANGED <<row_ent, mejor, n_vistos,
                   mes_trabajo, df_operacion, df_mantenimiento,
                   df_cruce, df_resultado, funcion, entrada, salida,
                   llamadas>>

Next ==
    \/ IterarOp
    \/ EmitirLineas
    \/ IterarInfotec
    \/ EmitirInfotec

Spec == Init /\ [][Next]_vars

(***************************************************************************)
(* Properties of the two matchers                                          *)
(***************************************************************************)
Emitido == pc = "fin" /\ notna(resultado)

Fila == Val(resultado)

Candidato == Val(mejor.mejor_match)

\* C1: in every emitted row the matched identifier is missing exactly when
\* the reported confidence is below the acceptance threshold 50
C1_MatchNuloSiiBajoUmbral ==
    Emitido =>
        (isna(Fila.match) <=> Fila.confianza < 10 * umbral_confianza)

\* C2: a candidate whose circuit is present and differs from the present
\* circuit of the reference is never the selected match
C2_FiltroCircuito ==
    (Emitido /\ notna(Fila.match)
        /\ notna(Fila.circuito_ent) /\ notna(Fila.circuito_match))
    => Fila.circuito_ent = Fila.circuito_match

\* C3: in every row of homologar_lineas the reported confidence is at most
\* the smaller of the two reported per-side similarities
C3_ConfianzaBajoMinimo ==
    (Emitido /\ Fila.funcion = "homologar_lineas")
    => Fila.confianza <= Min(Fila.sim_barra_a, Fila.sim_barra_b)

\* C4: in every emitted row the reported confidence lies in [0, 100]
C4_ConfianzaEnRango ==
    Emitido => (0 <= Fila.confianza /\ Fila.confianza <= 1000)

\* the voltages of a candidate that the filter compares with the reference:
\* 'voltaje' of an operation line; 'voltaje' and 'voltaje_secundario' of an
\* Infotecnica line or transformer
VoltajesFiltrados(c) ==
    IF "tipo_instalacion" \in DOMAIN c
    THEN { c.voltaje, c.voltaje_secundario }
    ELSE { VoltajeOp(c) }

\* C5: when the reference voltage is present, the best match so far, and so
\* the match of the emitted row, has no present voltage (its 'voltaje'; for a
\* transformer its primary and its secondary) more than 5 kV away from it
C5_FiltroVoltaje ==
    (notna(mejor.mejor_match) /\ notna(row_ent.voltaje_kv))
    => \A v \in VoltajesFiltrados(Candidato) :
          notna(v) => Abs(Val(row_ent.voltaje_kv) - Val(v)) <= ToleranciaKV

\* a row was emitted for a reference with a voltage, matched to a candidate
\* whose voltage is present, differs from it and is within the tolerance
C5_Testigo ==
    /\ Emitido
    /\ notna(Fila.match)
    /\ notna(row_ent.voltaje_kv)
    /\ \E v \in VoltajesFiltrados(Val(Fila.match)) :
          notna(v) /\ Val(v) # Val(row_ent.voltaje_kv)

\* the scoring of the selected candidate, and of the same candidate against
\* the reference with its two ends exchanged
PuntajeDirecto ==
    Puntuar(row_ent.barra_a_ent, row_ent.barra_b_ent,
            Candidato.barra_a, Candidato.barra_b)

PuntajeReferenciaInvertida ==
    Puntuar(row_ent.barra_b_ent, row_ent.barra_a_ent,
            Candidato.barra_a, Candidato.barra_b)

\* C6: exchanging the two ends of the reference gives the same score and
\* the opposite orientation flag, also when the normal and the swapped
\* score are equal
C6_SimetriaConEmpates ==
    notna(mejor.mejor_match) =>
        /\ PuntajeDirecto.invertido = mejor.match_invertido
        /\ PuntajeReferenciaInvertida.confianza = PuntajeDirecto.confianza
        /\ PuntajeReferenciaInvertida.invertido = ~ PuntajeDirecto.invertido

\* C6 amended: exchanging the two ends of the reference gives the same score;
\* the flag is the opposite one when the normal and the swapped score
\* differ, and is "not swapped" for both when they are equal
C6_SimetriaSalvoEmpates ==
    notna(mejor.mejor_match) =>
        /\ PuntajeDirecto.invertido = mejor.match_invertido
        /\ PuntajeReferenciaInvertida.confianza = PuntajeDirecto.confianza
        /\ IF PuntajeDirecto.confianza_normal = PuntajeDirecto.confianza_invertida
           THEN /\ ~ mejor.match_invertido
                /\ ~ PuntajeReferenciaInvertida.invertido
           ELSE PuntajeReferenciaInvertida.invertido = ~ mejor.match_invertido

\* a candidate was selected whose normal and swapped scores are equal
C6_Testigo ==
    /\ notna(mejor.mejor_match)
    /\ PuntajeDirecto.confianza_normal = PuntajeDirecto.confianza_invertida
    /\ n_vistos > 0

\* C13: in every row of homologar_lineas requiere_revision is true exactly
\* when the reported confidence is at least 50 and below 80
C13_RevisionSegunConfianza ==
    (Emitido /\ Fila.funcion = "homologar_lineas")
    => ( Fila.requiere_revision
           <=> ( 10 * umbral_confianza <= Fila.confianza
                 /\ Fila.confianza < 10 * LimiteRevision ) )

(***************************************************************************)
(* The resolver as a program: the inputs are drawn, then the call is made. *)
(***************************************************************************)
HomologacionSinUso ==
    /\ row_ent = None
    /\ mejor = MejorInicial
    /\ n_vistos = 0
    /\ resultado = None

InitReemplazo ==
    /\ pc = "aplicar_reemplazo_por_mes"
    /\ mes_trabajo \in Meses \cup MesesMalFormados
    /\ df_operacion \in { << r >> : r \in FilasOperacion }
    /\ df_mantenimiento \in SecuenciasHasta(FilasMantenimiento, MaxMan)
    /\ df_cruce = <<>>
    /\ df_resultado = <<>>
    /\ HomologacionSinUso
    /\ TextoSinUso
    /\ PrincipalSinUso

AplicarReemplazoPorMes ==
    /\ pc = "aplicar_reemplazo_por_mes"
    /\ df_cruce' = Cruce(mes_trabajo, df_operacion, df_mantenimiento)
    /\ df_resultado' =
          [ i \in 1..Len(df_cruce') |->
               FilaResultado(df_cruce'[i], mes_trabajo,
                             fecha_trabajo(mes_trabajo)) ]
    /\ pc' = "fin"
    /\ UNCHANGED <<row_ent, mejor, n_vistos, resultado,
                   mes_trabajo, df_operacion, df_mantenimiento,
                   funcion, entrada, salida,
                   llamadas>>

NextReemplazo == AplicarReemplazoPorMes

SpecReemplazo == InitReemplazo /\ [][NextReemplazo]_vars

(***************************************************************************)
(* Properties of the resolver                                              *)
(***************************************************************************)
Resuelto == pc = "fin" /\ isna(resultado) /\ notna(mes_trabajo)

FechaDelMes == fecha_trabajo(mes_trabajo)

Filas == 1..Len(df_resultado)

\* the month lies in the window [ini, fin], a missing end being open
EnVentana(ini, fin) ==
    /\ (isna(ini) \/ FechaDelMes >= Val(ini))
    /\ (isna(fin) \/ FechaDelMes <= Val(fin))

\* C7: for every returned row joined to a maintenance window, hay_reemplazo
\* is true exactly when (the start is missing or the month is on or after
\* it) and (the end is missing or the month is on or before it)
C7_ReemplazoSiiEnVentana ==
    Resuelto =>
        \A i \in Filas :
            df_cruce[i].tiene_mantenimiento =>
                ( df_resultado[i].hay_reemplazo
                    <=> EnVentana(df_resultado[i].man_LinFecIni,
                                  df_resultado[i].man_LinFecFin) )

\* a row joined to a window that ends on the first day of the working
\* month has its override active
C7_Testigo ==
    /\ Resuelto
    /\ \E i \in Filas :
          /\ df_cruce[i].tiene_mantenimiento
          /\ df_resultado[i].man_LinFecFin = Some(FechaDelMes)
          /\ df_resultado[i].hay_reemplazo

\* the operation line r is operational and exists in the working month
Retenida(r) ==
    /\ r.LinFOpe = Some(TRUE)
    /\ (isna(r.LinFecOpeIni) \/ Val(r.LinFecOpeIni) <= FechaDelMes)

VentanasDe(nombre) ==
    { k \in 1..Len(df_mantenimiento) : df_mantenimiento[k].LinNom = nombre }

FilasDe(nombre) == { i \in Filas : df_resultado[i].LinNom = nombre }

\* the line has maintenance windows and none of them is valid
SoloVentanasInvalidas(nombre) ==
    /\ VentanasDe(nombre) # {}
    /\ \A k \in VentanasDe(nombre) :
          df_mantenimiento[k].LinFMan # Some(TRUE)

\* C8: no returned row has its override activated by a window whose
\* validity flag is not true, whatever the dates of the window; and a
\* retained operation line whose windows are all invalid is returned as one
\* row with hay_reemplazo false, fuente 'operacion' and the operation R, X
C8_VentanaInvalidaNoActiva ==
    Resuelto =>
        /\ \A i \in Filas :
              df_resultado[i].hay_reemplazo =>
                  \E k \in VentanasDe(df_resultado[i].LinNom) :
                      /\ df_mantenimiento[k].LinFMan = Some(TRUE)
                      /\ df_mantenimiento[k].LinFecIni
                            = df_resultado[i].man_LinFecIni
                      /\ df_mantenimiento[k].LinFecFin
                            = df_resultado[i].man_LinFecFin
        /\ \A j \in 1..Len(df_operacion) :
              LET r == df_operacion[j]
              IN (Retenida(r) /\ SoloVentanasInvalidas(r.LinNom)) =>
                    /\ Cardinality(FilasDe(r.LinNom)) = 1
                    /\ \A i \in FilasDe(r.LinNom) :
                          /\ ~ df_resultado[i].hay_reemplazo
                          /\ df_resultado[i].fuente = "operacion"
                          /\ df_resultado[i].LinR = r.LinR
                          /\ df_resultado[i].LinX = r.LinX

\* a retained line with two invalid windows whose dates contain the month
C8_Testigo ==
    /\ Resuelto
    /\ \E j \in 1..Len(df_operacion) :
          /\ Retenida(df_operacion[j])
          /\ SoloVentanasInvalidas(df_operacion[j].LinNom)
          /\ Cardinality(VentanasDe(df_operacion[j].LinNom)) > 1
          /\ \A k \in VentanasDe(df_operacion[j].LinNom) :
                EnVentana(df_mantenimiento[k].LinFecIni,
                          df_mantenimiento[k].LinFecFin)
          /\ FilasDe(df_operacion[j].LinNom) # {}

\* C9: the returned rows contain an operation line exactly when its
\* validity flag is true and its start date is missing or on or before the
\* first day of the working month
C9_LineaEmitidaSiiRetenida ==
    Resuelto =>
        \A j \in 1..Len(df_operacion) :
            FilasDe(df_operacion[j].LinNom) # {} <=> Retenida(df_operacion[j])

\* a line that starts on the first day of the working month was returned
C9_Testigo ==
    /\ Resuelto
    /\ \E j \in 1..Len(df_operacion) :
          /\ df_operacion[j].LinFecOpeIni = Some(FechaDelMes)
          /\ FilasDe(df_operacion[j].LinNom) # {}

C11_UnaFilaPorLinea ==
    Resuelto =>
        \A j \in 1..Len(df_operacion) :
            Retenida(df_operacion[j]) =>
                Cardinality(FilasDe(df_operacion[j].LinNom)) = 1

\* C12: rows are returned only for a month string of the form YYYY-MM
C12_MesMalFormadoRechazado ==
    Resuelto => validar_mes(mes_trabajo)

(***************************************************************************)
(* The text functions: normalizers, parsers and extractors.  A string is a *)
(* sequence of one-character strings.                                      *)
(***************************************************************************)
Mayusculas ==
    << "A", "B", "C", "D", "E", "F", "G", "H", "I", "J", "K", "L", "M",
       "N", "O", "P", "Q", "R", "S", "T", "U", "V", "W", "X", "Y", "Z" >>

Minusculas ==
    << "a", "b", "c", "d", "e", "f", "g", "h", "i", "j", "k", "l", "m",
       "n", "o", "p", "q", "r", "s", "t", "u", "v", "w", "x", "y", "z" >>

\* str.lower()
lower(s) ==
    [ i \in 1..Len(s) |->
        IF \E k \in 1..Len(Mayusculas) : Mayusculas[k] = s[i]
        THEN Minusculas[CHOOSE k \in 1..Len(Mayusculas) : Mayusculas[k] = s[i]]
        ELSE s[i] ]

\* str.upper()
upper(s) ==
    [ i \in 1..Len(s) |->
        IF \E k \in 1..Len(Minusculas) : Minusculas[k] = s[i]
        THEN Mayusculas[CHOOSE k \in 1..Len(Minusculas) : Minusculas[k] = s[i]]
        ELSE s[i] ]

\* how many characters at the end of s belong to the set C
Finales(s, C) ==
    CHOOSE k \in 0..Len(s) :
        /\ \A i \in (Len(s) - k + 1)..Len(s) : s[i] \in C
        /\ (k < Len(s) => s[Len(s) - k] \notin C)

Digitos == { "0", "1", "2", "3", "4", "5", "6", "7", "8", "9" }

\* s without its last n characters
SinFinal(s, n) == SubSeq(s, 1, Len(s) - n)

\* re.sub(r'_*(\d{2,3})$', '', s): the leftmost match takes three digits
\* when the string ends in three or more, and the underscores before them
QuitarVoltajeEnt(s) ==
    LET r == Finales(s, Digitos)
    IN IF r < 2 THEN s
       ELSE LET resto == SinFinal(s, IF r >= 3 THEN 3 ELSE 2)
            IN SinFinal(resto, Finales(resto, { "_" }))

\* re.sub(r'\s+\d{2,3}$', '', s): two or three final digits after whitespace
QuitarVoltajeOp(s) ==
    LET r == Finales(s, Digitos)
        resto == SinFinal(s, r)
    IN IF r \in { 2, 3 } /\ Finales(resto, { " " }) > 0
       THEN SinFinal(resto, Finales(resto, { " " }))
       ELSE s

\* re.sub(r'\s+\d+$', '', s): the final digits after whitespace
QuitarTapInfotec(s) ==
    LET r == Finales(s, Digitos)
        resto == SinFinal(s, r)
    IN IF r >= 1 /\ Finales(resto, { " " }) > 0
       THEN SinFinal(resto, Finales(resto, { " " }))
       ELSE s

\* s.replace('_', ' ').replace('.', ' ')
ReemplazarSeparadores(s) ==
    [ i \in 1..Len(s) |-> IF s[i] \in { "_", "." } THEN " " ELSE s[i] ]

\* ' '.join(s.split())
Colapsar(s) == Join(Split(s))

\* ABREVIACIONES, in the order of the dictionary: << key, expansion >>
ABREVIACIONES ==
    <<
       << <<"D", ".", "A", "L", "M", "A", "G", "R", "O">>,
          <<"D", "I", "E", "G", "O", " ", "D", "E", " ", "A", "L", "M", "A", "G", "R", "O">> >>,
       << <<"S", ".", "V", "I", "C", "E", "N", "T", "E">>,
          <<"S", "A", "N", " ", "V", "I", "C", "E", "N", "T", "E">> >>,
       << <<"S", ".", "A", "N", "T", "O", "N", "I", "O">>,
          <<"S", "A", "N", " ", "A", "N", "T", "O", "N", "I", "O">> >>,
       << <<"S", ".", "F", "E", "L", "I", "P", "E">>,
          <<"S", "A", "N", " ", "F", "E", "L", "I", "P", "E">> >>,
       << <<"S", ".", "F", "E", "R", "N", "A", "N", "D", "O">>,
          <<"S", "A", "N", " ", "F", "E", "R", "N", "A", "N", "D", "O">> >>,
       << <<"S", ".", "C", "A", "R", "L", "O", "S">>,
          <<"S", "A", "N", " ", "C", "A", "R", "L", "O", "S">> >>,
       << <<"S", ".", "P", "E", "D", "R", "O">>,
          <<"S", "A", "N", " ", "P", "E", "D", "R", "O">> >>,
       << <<"S", ".", "R", "A", "F", "A", "E", "L">>,
          <<"S", "A", "N", " ", "R", "A", "F", "A", "E", "L">> >>,
       << <<"S", "T", "A", ".", "R", "O", "S", "A">>,
          <<"S", "A", "N", "T", "A", " ", "R", "O", "S", "A">> >>,
       << <<"S", "T", "A", ".", "E", "L", "I", "S", "A">>,
          <<"S", "A", "N", "T", "A", " ", "E", "L", "I", "S", "A">> >>,
       << <<"L", ".", "C", "H", "A", "N", "G", "O", "S">>,
          <<"L", "O", "S", " ", "C", "H", "A", "N", "G", "O", "S">> >>,
       << <<"L", ".", "V", "I", "L", "O", "S">>,
          <<"L", "O", "S", " ", "V", "I", "L", "O", "S">> >>,
       << <<"L", ".", "A", "N", "G", "E", "L", "E", "S">>,
          <<"L", "O", "S", " ", "A", "N", "G", "E", "L", "E", "S">> >>
    >>

\* str.replace(clave, expansion): every occurrence, left to right
RECURSIVE Replace(_, _, _)
Replace(s, clave, expansion) ==
    IF Len(s) < Len(clave) THEN s
    ELSE IF SubSeq(s, 1, Len(clave)) = clave
         THEN expansion \o Replace(SubSeq(s, Len(clave) + 1, Len(s)),
                                   clave, expansion)
    ELSE << Head(s) >> \o Replace(Tail(s), clave, expansion)

\* sorted(items, key=len of the key, reverse=True): longest key first,
\* keys of equal length in their original order
RECURSIVE InsertarPorLargo(_, _)
InsertarPorLargo(par, l) ==
    IF l = <<>> THEN << par >>
    ELSE IF Len(Head(l)[1]) >= Len(par[1])
         THEN << Head(l) >> \o InsertarPorLargo(par, Tail(l))
    ELSE << par >> \o l

RECURSIVE OrdenadasPorLargo(_)
OrdenadasPorLargo(l) ==
    IF l = <<>> THEN <<>>
    ELSE InsertarPorLargo(l[Len(l)], OrdenadasPorLargo(SinFinal(l, 1)))

RECURSIVE ReemplazarTodas(_, _)
ReemplazarTodas(texto, pares) ==
    IF pares = <<>> THEN texto
    ELSE ReemplazarTodas(Replace(texto, Head(pares)[1], Head(pares)[2]),
                         Tail(pares))

expandir_abreviaciones(texto) ==
    ReemplazarTodas(upper(texto), OrdenadasPorLargo(ABREVIACIONES))

\* normalizar_barra_ent with the abbreviations expanded after the voltage
\* suffix is removed
normalizar_barra_ent_con_expansion(barra) ==
    lower(Colapsar(ReemplazarSeparadores(
        expandir_abreviaciones(QuitarVoltajeEnt(barra)))))

normalizar_barra_ent(barra) ==
    lower(Colapsar(ReemplazarSeparadores(QuitarVoltajeEnt(barra))))

normalizar_barra_op(barra) ==
    lower(Colapsar(ReemplazarSeparadores(QuitarVoltajeOp(barra))))

normalizar_nombre_infotec(nombre) ==
    Colapsar(QuitarTapInfotec(ReemplazarSeparadores(lower(nombre))))

Normalizadores ==
    { "normalizar_barra_ent", "normalizar_barra_op",
      "normalizar_nombre_infotec" }

Normalizar(f, texto) ==
    CASE f = "normalizar_barra_ent"      -> normalizar_barra_ent(texto)
      [] f = "normalizar_barra_op"       -> normalizar_barra_op(texto)
      [] f = "normalizar_nombre_infotec" -> normalizar_nombre_infotec(texto)

\* the parts of a text separated by '->'
RECURSIVE SplitFlecha(_)
SplitFlecha(s) ==
    IF ~ Contiene(<<"-", ">">>, s) THEN << s >>
    ELSE LET k == CHOOSE i \in 1..(Len(s) - 1) :
                     /\ s[i] = "-" /\ s[i + 1] = ">"
                     /\ \A j \in 1..(i - 1) : ~ (s[j] = "-" /\ s[j + 1] = ">")
         IN << SubSeq(s, 1, k - 1) >>
               \o SplitFlecha(SubSeq(s, k + 2, Len(s)))

\* how many characters at the start of s belong to the set C
Iniciales(s, C) ==
    CHOOSE k \in 0..Len(s) :
        /\ \A i \in 1..k : s[i] \in C
        /\ (k < Len(s) => s[k + 1] \notin C)

\* str.strip(C)
Strip(s, C) ==
    IF Iniciales(s, C) = Len(s) THEN <<>>
    ELSE SubSeq(s, Iniciales(s, C) + 1, Len(s) - Finales(s, C))

Blancos == { " " }

EsDigitoEn(s, i) == i <= Len(s) /\ s[i] \in Digitos

\* a run of two or three digits starts at j and is followed by an underscore
\* or by the end of the text
DigitosYCierre(s, j) ==
    /\ EsDigitoEn(s, j) /\ EsDigitoEn(s, j + 1)
    /\ \/ j + 2 > Len(s)
       \/ s[j + 2] = "_"
       \/ /\ EsDigitoEn(s, j + 2)
          /\ (j + 3 > Len(s) \/ s[j + 3] = "_")

\* the pattern _*\d{2,3}(?:_.*)?$ matches from position i (to the end)
EmpiezaVoltaje(s, i) ==
    DigitosYCierre(s, i + Iniciales(SubSeq(s, i, Len(s)), { "_" }))

\* re.sub(r'_*\d{2,3}(?:_.*)?$', '', parte): the leftmost match is removed,
\* and it reaches the end of the text
SinVoltaje(parte) ==
    IF \A i \in 1..Len(parte) : ~ EmpiezaVoltaje(parte, i) THEN parte
    ELSE LET k == CHOOSE i \in 1..Len(parte) :
                     /\ EmpiezaVoltaje(parte, i)
                     /\ \A j \in 1..(i - 1) : ~ EmpiezaVoltaje(parte, j)
         IN SubSeq(parte, 1, k - 1)

\* re.search(r'(\d{2,3})(?:_|$)', parte): group 1 of the leftmost match,
\* three digits when three fit
VoltajeDeParte(parte) ==
    IF \A i \in 1..Len(parte) : ~ DigitosYCierre(parte, i) THEN None
    ELSE LET k == CHOOSE i \in 1..Len(parte) :
                     /\ DigitosYCierre(parte, i)
                     /\ \A j \in 1..(i - 1) : ~ DigitosYCierre(parte, j)
             n == IF /\ EsDigitoEn(parte, k + 2)
                     /\ (k + 3 > Len(parte) \/ parte[k + 3] = "_")
                  THEN 3 ELSE 2
         IN Some(Entero(SubSeq(parte, k, k + n - 1)))

es_transformador(nombre) ==
    LET partes == SplitFlecha(nombre)
    IN IF Len(partes) # 2 THEN FALSE
       ELSE LET parte_a == Strip(partes[1], Blancos)
                parte_b == Strip(partes[2], Blancos)
                barra_a_sin_voltaje ==
                    Strip(Strip(SinVoltaje(parte_a), { "_" }), Blancos)
                barra_b_sin_voltaje ==
                    Strip(Strip(SinVoltaje(parte_b), { "_" }), Blancos)
                match_a == VoltajeDeParte(parte_a)
                match_b == VoltajeDeParte(parte_b)
            IN IF upper(barra_a_sin_voltaje) # upper(barra_b_sin_voltaje)
               THEN FALSE
               ELSE IF isna(match_a) \/ isna(match_b) THEN FALSE
               ELSE Abs(Val(match_a) - Val(match_b)) > DiferenciaTransformador

\* how many whitespace characters there are from position i on
BlancosDesde(s, i) == Iniciales(SubSeq(s, i, Len(s)), Blancos)

\* 'KV' in either case at position i
EsKV(s, i) == i + 1 <= Len(s) /\ upper(SubSeq(s, i, i + 1)) = <<"K", "V">>

\* \s+(\d{2,3})KV right after position r: the value of the group and the
\* position of the V, or None when it does not match there
VoltajeTras(s, r) ==
    LET b == BlancosDesde(s, r + 1)
        d == r + b + 1
    IN IF b = 0 \/ ~ (EsDigitoEn(s, d) /\ EsDigitoEn(s, d + 1)) THEN None
       ELSE IF EsDigitoEn(s, d + 2) /\ EsKV(s, d + 3)
            THEN Some([ valor |-> Entero(SubSeq(s, d, d + 2)), fin |-> d + 4 ])
       ELSE IF EsKV(s, d + 2)
            THEN Some([ valor |-> Entero(SubSeq(s, d, d + 1)), fin |-> d + 3 ])
       ELSE None

\* \s+C\d+$ right after position f
CircuitoAlFinal(s, f) ==
    LET b == BlancosDesde(s, f + 1)
        c == f + b + 1
    IN /\ b >= 1
       /\ c + 1 <= Len(s)
       /\ upper(<< s[c] >>) = <<"C">>
       /\ \A i \in (c + 1)..Len(s) : s[i] \in Digitos

\* what follows the second group: \s+(\d{2,3})KV\s+C\d+$ or \s+(\d{2,3})KV
Cierre(s, r, con_circuito) ==
    /\ notna(VoltajeTras(s, r))
    /\ (con_circuito => CircuitoAlFinal(s, Val(VoltajeTras(s, r)).fin))

\* the position of the hyphen when the first group ends at q: \s*-
Guion(s, q) == q + 1 + BlancosDesde(s, q + 1)

HayGuion(s, q) == Guion(s, q) <= Len(s) /\ s[Guion(s, q)] = "-"

\* (.+?)\s*-\s*(.+?) and the closing match: the ends r of the second group
\* when the first group is s[1..q] and w whitespace characters are skipped
\* after the hyphen
FinesDeGrupo(s, q, w, con_circuito) ==
    { r \in (Guion(s, q) + w + 1)..Len(s) : Cierre(s, r, con_circuito) }

\* the numbers of whitespace characters skipped after the hyphen with which
\* the pattern matches
Anchos(s, q, con_circuito) ==
    { w \in 0..BlancosDesde(s, Guion(s, q) + 1) :
        FinesDeGrupo(s, q, w, con_circuito) # {} }

\* the ends of the first group with which the pattern matches
Inicios(s, con_circuito) ==
    { q \in 1..Len(s) : HayGuion(s, q) /\ Anchos(s, q, con_circuito) # {} }

HayMatch(s, con_circuito) == Inicios(s, con_circuito) # {}

\* the match re.match reports: the shortest first group, then the longest
\* whitespace after the hyphen, then the shortest second group
Grupos(s, con_circuito) ==
    LET q0 == CHOOSE q \in Inicios(s, con_circuito) :
                  \A j \in Inicios(s, con_circuito) : q <= j
        w0 == CHOOSE w \in Anchos(s, q0, con_circuito) :
                  \A j \in Anchos(s, q0, con_circuito) : w >= j
        r0 == CHOOSE r \in FinesDeGrupo(s, q0, w0, con_circuito) :
                  \A j \in FinesDeGrupo(s, q0, w0, con_circuito) : r <= j
    IN << Strip(SubSeq(s, 1, q0), Blancos),
          Strip(SubSeq(s, Guion(s, q0) + w0 + 1, r0), Blancos),
          Some(Val(VoltajeTras(s, r0)).valor) >>

extraer_barras_infotecnica(nombre) ==
    IF HayMatch(nombre, TRUE) THEN Grupos(nombre, TRUE)
    ELSE IF HayMatch(nombre, FALSE) THEN Grupos(nombre, FALSE)
    ELSE << nombre, <<>>, None >>

\* re.search(r'_(\d+)de\d+$', nombre): the text ends in '_', digits, 'de',
\* digits; group 1 is the first run of digits
extraer_circuito_ent(nombre) ==
    LET m == Finales(nombre, Digitos)
        s == SinFinal(nombre, m)
        t == IF Len(s) >= 2 THEN SinFinal(s, 2) ELSE <<>>
        n == Finales(t, Digitos)
    IN IF /\ m >= 1
          /\ Len(s) >= 2
          /\ SubSeq(s, Len(s) - 1, Len(s)) = <<"d", "e">>
          /\ n >= 1
          /\ Len(t) > n
          /\ t[Len(t) - n] = "_"
       THEN Some(Entero(SubSeq(t, Len(t) - n + 1, Len(t))))
       ELSE None

\* the roman numerals without VI
romanos_hasta_v ==
    (<<"I">> :> 1) @@ (<<"I", "I">> :> 2) @@ (<<"I", "I", "I">> :> 3)
      @@ (<<"I", "V">> :> 4) @@ (<<"V">> :> 5)

romanos ==
    (<<"I">> :> 1) @@ (<<"I", "I">> :> 2) @@ (<<"I", "I", "I">> :> 3)
      @@ (<<"I", "V">> :> 4) @@ (<<"V">> :> 5) @@ (<<"V", "I">> :> 6)

\* re.search(r'\s+C(\d+)\s*$', s) on a text without trailing whitespace,
\* the C in either case when ignorecase: group 1 as an integer, or None
CircuitoC(s, ignorecase) ==
    LET n == Finales(s, Digitos)
        t == SinFinal(s, n)
    IN IF /\ n >= 1
          /\ Len(t) >= 2
          /\ (t[Len(t)] = "C" \/ (ignorecase /\ t[Len(t)] = "c"))
          /\ t[Len(t) - 1] \in Blancos
       THEN Some(Entero(SubSeq(s, Len(s) - n + 1, Len(s))))
       ELSE None

extraer_circuito_op(linnom) ==
    LET s == Strip(linnom, Blancos)
        n == Finales(s, { "I", "V", "X" })
        romano == SubSeq(s, Len(s) - n + 1, Len(s))
    IN IF n >= 1 /\ Len(s) > n /\ s[Len(s) - n] \in Blancos
       THEN IF romano \in DOMAIN romanos THEN Some(romanos[romano]) ELSE None
       ELSE CircuitoC(s, FALSE)

extraer_circuito_infotec(nombre) ==
    CircuitoC(SinFinal(nombre, Finales(nombre, Blancos)), TRUE)

ExtractoresDeCircuito ==
    { "extraer_circuito_ent", "extraer_circuito_op", "extraer_circuito_infotec" }

ExtraerCircuito(f, texto) ==
    CASE f = "extraer_circuito_ent"     -> extraer_circuito_ent(texto)
      [] f = "extraer_circuito_op"      -> extraer_circuito_op(texto)
      [] f = "extraer_circuito_infotec" -> extraer_circuito_infotec(texto)

\* how many rows of df satisfy P
Contar(df, P(_)) == Cardinality({ i \in 1..Len(df) : P(df[i]) })

\* round(con_match / total * 100, 1), in tenths (a tie goes to the even tenth)
PorcentajeMatch(con_match, total) ==
    LET q == (1000 * con_match) \div total
        r == (1000 * con_match) % total
    IN IF 2 * r > total THEN q + 1
       ELSE IF 2 * r < total THEN q
       ELSE IF q % 2 = 0 THEN q ELSE q + 1

\* resumen_homologacion: confidences are in tenths
resumen_homologacion(df_homologado) ==
    LET total     == Len(df_homologado)
        con_match == Contar(df_homologado, LAMBDA f : notna(f.match))
    IN [ total_lineas     |-> total,
         con_match        |-> con_match,
         sin_match        |-> total - con_match,
         porcentaje_match |-> IF total > 0 THEN PorcentajeMatch(con_match, total)
                              ELSE 0,
         confianza_90_100 |->
             Contar(df_homologado,
                    LAMBDA f : f.confianza >= 900 /\ notna(f.match)),
         confianza_80_89  |->
             Contar(df_homologado,
                    LAMBDA f : /\ f.confianza >= 800 /\ f.confianza < 900
                               /\ notna(f.match)),
         confianza_50_79  |->
             Contar(df_homologado,
                    LAMBDA f : /\ f.confianza >= 500 /\ f.confianza < 800
                               /\ notna(f.match)),
         confianza_bajo_50 |->
             Contar(df_homologado, LAMBDA f : f.confianza < 500),
         requiere_revision |->
             Contar(df_homologado, LAMBDA f : f.requiere_revision),
         invertidos |->
             Contar(df_homologado, LAMBDA f : f.match_invertido = Some(TRUE)) ]

\* a float that is a ratio of integers, in lowest terms with a positive
\* denominator
Fraccion(n, d) ==
    LET g == Mcd(Abs(n), Abs(d))
        s == IF d < 0 THEN 0 - 1 ELSE 1
    IN IF g = 0 THEN <<0, 1>> ELSE <<(s * n) \div g, (s * d) \div g>>

\* the outcome of a call that raises
Excepcion(nombre) ==
    [ R_ohm |-> None, X_ohm |-> None, motivo_error |-> None,
      excepcion |-> Some(nombre) ]

\* return (None, None, motivo)
SinCalculo(motivo) ==
    [ R_ohm |-> None, X_ohm |-> None, motivo_error |-> Some(motivo),
      excepcion |-> None ]

\* np.sqrt of a ratio: nan (no value) for a negative one, else the root kept
\* symbolically
Raiz(q) == IF q[1] < 0 THEN None ELSE Some([ raiz_de |-> q ])

\* lines 129-148: steps 1 to 4 on four numbers; a float division by zero
\* raises ZeroDivisionError
CalculoRX(S_MVA, V_kV, Z_percent, Pcu_kW) ==
    IF S_MVA * 1000 = 0 THEN Excepcion("ZeroDivisionError")
    ELSE
    LET R_percent == Fraccion(Pcu_kW * 100, S_MVA * 1000)
        num == R_percent[1]
        den == R_percent[2]
    IN IF Z_percent * Z_percent * den * den < num * num
       THEN SinCalculo("Z%2 < R%2 (Z=..., R=...)")
       ELSE LET X_percent ==
                    Raiz(Fraccion(Z_percent * Z_percent * den * den - num * num,
                                  den * den))
                Z_base == Fraccion(V_kV * V_kV, S_MVA)
            IN [ R_ohm |-> Some(Fraccion(num * Z_base[1],
                                         den * 100 * Z_base[2])),
                 X_ohm |-> IF isna(X_percent) THEN None
                           ELSE Some([ raiz_de |-> Val(X_percent).raiz_de,
                                       por |-> Fraccion(Z_base[1],
                                                        100 * Z_base[2]) ]),
                 motivo_error |-> None,
                 excepcion |-> None ]

\* calcular_rx_transformador without the check of a non-positive S_MVA
calcular_rx_transformador_sin_validar_s(S_MVA, V_kV, Z_percent, Pcu_kW) ==
    IF isna(S_MVA) THEN SinCalculo("Falta S_MVA (Capacidad nominal)")
    ELSE IF isna(V_kV) THEN SinCalculo("Falta V_kV (Tension nominal)")
    ELSE IF isna(Z_percent) THEN SinCalculo("Falta Z% (Impedancia)")
    ELSE IF isna(Pcu_kW) THEN SinCalculo("Falta Pcu_kW (Perdidas en cobre)")
    ELSE IF Val(V_kV) <= 0 THEN SinCalculo("V_kV <= 0 (invalido)")
    ELSE CalculoRX(Val(S_MVA), Val(V_kV), Val(Z_percent), Val(Pcu_kW))

\* lines 89-148: R and X of a transformer in ohms, or the reason why not
calcular_rx_transformador(S_MVA, V_kV, Z_percent, Pcu_kW) ==
    IF isna(S_MVA) THEN SinCalculo("Falta S_MVA (Capacidad nominal)")
    ELSE IF isna(V_kV) THEN SinCalculo("Falta V_kV (Tension nominal)")
    ELSE IF isna(Z_percent) THEN SinCalculo("Falta Z% (Impedancia)")
    ELSE IF isna(Pcu_kW) THEN SinCalculo("Falta Pcu_kW (Perdidas en cobre)")
    ELSE IF Val(S_MVA) <= 0 THEN SinCalculo("S_MVA <= 0 (invalido)")
    ELSE IF Val(V_kV) <= 0 THEN SinCalculo("V_kV <= 0 (invalido)")
    ELSE CalculoRX(Val(S_MVA), Val(V_kV), Val(Z_percent), Val(Pcu_kW))

\* the characters \w matches among those of the names
Palabra ==
    { Mayusculas[k] : k \in 1..Len(Mayusculas) }
    \cup { Minusculas[k] : k \in 1..Len(Minusculas) }
    \cup Digitos \cup { "_" }

\* how many characters of s from position i on belong to the set C
Desde(s, i, C) == Iniciales(SubSeq(s, i, Len(s)), C)

\* the position after the whitespace that starts at p
TrasBlancos(s, p) == p + Desde(s, p, Blancos)

\* the leftmost position where the pattern M matches, or 0
Primero(s, M(_, _)) ==
    IF \A p \in 1..Len(s) : ~ M(s, p) THEN 0
    ELSE CHOOSE p \in 1..Len(s) :
             M(s, p) /\ \A q \in 1..(p - 1) : ~ M(s, q)

\* \s+(\d{2,3})(?:\s+\w+)*\s*$ matches at p: whitespace, a run of exactly two
\* or three digits, then nothing or whitespace and only words and whitespace
VoltajeYSufijos(s, p) ==
    /\ s[p] \in Blancos
    /\ LET d == TrasBlancos(s, p)
           n == Desde(s, d, Digitos)
       IN /\ n \in { 2, 3 }
          /\ \/ d + n > Len(s)
             \/ /\ s[d + n] \in Blancos
                /\ \A i \in (d + n)..Len(s) : s[i] \in Blancos \cup Palabra

\* \s+(\d{2,3})(?:\s+[IVXCivxc\d]|\s*$) matches at p
VoltajeYCircuito(s, p) ==
    /\ s[p] \in Blancos
    /\ LET d == TrasBlancos(s, p)
           n == Desde(s, d, Digitos)
           f == TrasBlancos(s, d + n)
       IN /\ n \in { 2, 3 }
          /\ \/ f > Len(s)
             \/ /\ f > d + n
                /\ s[f] \in { "I", "V", "X", "C", "i", "v", "x", "c" }
                                \cup Digitos

\* \s+\d{2,3}\s*[IVX]*\s*$ matches at p
VoltajeYRomano(s, p) ==
    /\ s[p] \in Blancos
    /\ LET d == TrasBlancos(s, p)
           n == Desde(s, d, Digitos)
           f == TrasBlancos(s, d + n)
           g == f + Desde(s, f, { "I", "V", "X" })
       IN /\ n \in { 2, 3 }
          /\ TrasBlancos(s, g) > Len(s)

\* \s+\d{2,3}\s*C?\d*\s*$ matches at p: after a run of more than three
\* digits, which \d{2,3} and \d* share, only whitespace can follow
VoltajeYC(s, p) ==
    /\ s[p] \in Blancos
    /\ LET d == TrasBlancos(s, p)
           n == Desde(s, d, Digitos)
           f == TrasBlancos(s, d + n)
           g == IF f <= Len(s) /\ s[f] = "C" THEN f + 1 ELSE f
           h == g + Desde(s, g, Digitos)
       IN /\ n >= 2
          /\ IF n <= 3 THEN TrasBlancos(s, h) > Len(s) ELSE f > Len(s)

\* \s+[IVX]+\s*$ matches at p
RomanoFinal(s, p) ==
    /\ s[p] \in Blancos
    /\ LET d == TrasBlancos(s, p)
           n == Desde(s, d, { "I", "V", "X" })
       IN n >= 1 /\ TrasBlancos(s, d + n) > Len(s)

\* re.sub(M, '', s) for a pattern M that ends in $: the leftmost match
\* reaches the end of the text and is removed
QuitarFinal(s, M(_, _)) ==
    IF Primero(s, M) = 0 THEN s ELSE SubSeq(s, 1, Primero(s, M) - 1)

\* float(group 1) of re.search(M, s), M one of the patterns above; None
\* without a match
VoltajeEncontrado(s, M(_, _)) ==
    IF Primero(s, M) = 0 THEN None
    ELSE LET d == TrasBlancos(s, Primero(s, M))
         IN Some(Entero(SubSeq(s, d, d + Desde(s, d, Digitos) - 1)))

\* the text before the first occurrence of sep, which s contains
AntesDe(s, sep) ==
    LET k == CHOOSE i \in 1..Len(s) :
                 /\ SubSeq(s, i, i + Len(sep) - 1) = sep
                 /\ \A j \in 1..(i - 1) : SubSeq(s, j, j + Len(sep) - 1) # sep
    IN SubSeq(s, 1, k - 1)

\* the text after the first occurrence of sep, which s contains
DespuesDe(s, sep) ==
    SubSeq(s, Len(AntesDe(s, sep)) + Len(sep) + 1, Len(s))

\* lines 578-625: the two buses and the two voltages of an operation name
extraer_barras_de_linnom(linnom) ==
    LET flecha == <<"-", ">">>
        guion == <<" ", "-", " ">>
        sep == IF Contiene(flecha, linnom) THEN flecha ELSE guion
    IN IF ~ Contiene(sep, linnom)
       THEN [ barra_a |-> linnom, barra_b |-> <<>>,
              voltaje_a |-> None, voltaje_b |-> None ]
       ELSE
       LET barra_a_raw == Strip(AntesDe(linnom, sep), Blancos)
           resto == Strip(Replace(DespuesDe(linnom, sep), sep, flecha), Blancos)
           barra_a == QuitarFinal(barra_a_raw, VoltajeYSufijos)
           barra_b == QuitarFinal(
                          QuitarFinal(QuitarFinal(resto, VoltajeYRomano),
                                      VoltajeYC),
                          RomanoFinal)
       IN [ barra_a |-> Strip(barra_a, Blancos),
            barra_b |-> Strip(barra_b, Blancos),
            voltaje_a |-> VoltajeEncontrado(barra_a_raw, VoltajeYSufijos),
            voltaje_b |-> VoltajeEncontrado(resto, VoltajeYCircuito) ]

\* raw bus labels: a name, padding, a voltage suffix
NombresDeBarra ==
    { <<"A">>, <<"A", "1">>, <<"A", "1", "1">>, <<"A", " ", "1">>,
      <<"A", " ", "1", "1">>, <<"A", ".", "b">> }

Rellenos == { [ i \in 1..k |-> c ] : k \in 0..MaxRelleno, c \in { "_", " " } }

SufijosDeVoltaje == { <<>>, <<"2">>, <<"2", "2">>, <<"2", "2", "0">> }

Etiquetas ==
    { n \o r \o v : n \in NombresDeBarra, r \in Rellenos, v \in SufijosDeVoltaje }

\* the reference label D.ALMAGRO1____220
EtiquetaAlmagro ==
    <<"D", ".", "A", "L", "M", "A", "G", "R", "O", "1", "_", "_", "_", "_", "2", "2", "0">>

\* reference labels that contain a key of the abbreviation table
EtiquetasAbreviadas ==
    { ABREVIACIONES[k][1] \o n \o r \o v :
        k \in 1..Len(ABREVIACIONES), n \in { <<>>, <<"1">> },
        r \in Rellenos, v \in SufijosDeVoltaje }
    \cup { EtiquetaAlmagro }

\* station names of the reference source, some with a run of two digits
NombresEnt ==
    { <<"A">>, <<"a">>, <<"B">>, <<"A", "1">>, <<"A", "1", "2">>,
      <<"A", "_", "1", "2">>, <<"A", "_", "6", "6">> }

RellenosEnt == { [ i \in 1..k |-> "_" ] : k \in 1..MaxRelleno }

VoltajesEnt ==
    { <<"2", "2", "0">>, <<"2", "1", "8">>, <<"1", "5", "4">>, <<"6", "6">> }

\* one side of a reference line name: name, padding, voltage
LadosEnt ==
    { n \o r \o v : n \in NombresEnt, r \in RellenosEnt, v \in VoltajesEnt }

EtiquetaJahuelTransformador ==
    <<"A", ".", "J", "A", "H", "U", "E", "L", "_", "_", "_", "_", "_", "_", "2", "2", "0", "-", ">", "A", ".", "J", "A", "H", "U", "E", "L", "_", "_", "_", "_", "_", "_", "1", "5", "4">>

EtiquetaJahuelCardones ==
    <<"A", ".", "J", "A", "H", "U", "E", "L", "_", "_", "_", "_", "_", "_", "2", "2", "0", "-", ">", "C", "A", "R", "D", "O", "N", "E", "S", "_", "_", "_", "_", "_", "_", "2", "2", "0">>

\* reference line names 'side->side', and one side alone
NombresDeLinea ==
    { a \o <<"-", ">">> \o b : a \in LadosEnt, b \in LadosEnt }
    \cup LadosEnt
    \cup { EtiquetaJahuelTransformador, EtiquetaJahuelCardones }

\* the character U+2013 (en dash), written by its code point
GuionLargo == "U+2013"

\* the two dashes, alone and between up to MaxRelleno spaces on each side
SeparadoresInfotec ==
    { [ i \in 1..k |-> " " ] \o << g >> \o [ i \in 1..k |-> " " ] :
        k \in 0..MaxRelleno, g \in { "-", GuionLargo } }

BarrasInfotecA == { <<"A">>, <<"A", " ", "B">>, <<"A", "-", "B">> }

BarrasInfotecB == { <<"B">>, <<"T", " ", "B">>, <<"2", "2", "K", "V", " ", "B">> }

VoltajesInfotec ==
    { <<>>, <<" ", "2", "2", "0", "K", "V">>, <<" ", "6", "6", "k", "V">>,
      <<" ", " ", "1", "2", "2", "0", "K", "V">>, <<"2", "2", "0", "K", "V">> }

CircuitosInfotec == { <<>>, <<" ", "C", "1">>, <<" ", "c", "1", "2">>, <<"C", "1">> }

EtiquetaPaposoGuion ==
    <<"P", "A", "P", "O", "S", "O", " ", "-", " ", "T", "A", "P", " ", "T", "A", "L", " ", "T", "A", "L", " ", "2", "2", "0", "K", "V", " ", "C", "1">>

EtiquetaPaposoGuionLargo ==
    <<"P", "A", "P", "O", "S", "O", " ", GuionLargo, " ", "T", "A", "P", " ", "T", "A", "L", " ", "T", "A", "L", " ", "2", "2", "0", "K", "V", " ", "C", "1">>

\* names of the technical registry: 'BARRA A - BARRA B VVVkV C#'
NombresInfotec ==
    { a \o g \o b \o v \o c :
        a \in BarrasInfotecA, g \in SeparadoresInfotec, b \in BarrasInfotecB,
        v \in VoltajesInfotec, c \in CircuitosInfotec }
    \cup { EtiquetaPaposoGuion, EtiquetaPaposoGuionLargo }

Espacios == { [ i \in 1..k |-> " " ] : k \in 1..MaxRelleno }

\* names without a circuit marker, per source
SinMarcador ==
    [ extraer_circuito_ent |->
        { <<"A", "_", "2", "2", "0", "-", ">", "B", "_", "2", "2", "0">>,
          <<"A", "1">>,
          <<"A", "d", "e", "2">>,
          <<"A", "_", "1", "d", "e", "2", "x">> },
      extraer_circuito_op |->
        { <<"A", " ", "2", "2", "0", "-", ">", "B", " ", "2", "2", "0">>,
          <<"A", " ", "2", "2", "0", "-", ">", "B">>,
          <<"A", " ", "2", "2", "0", "-", ">", "B", "I">>,
          <<"A", "-", ">", "B", "C", "1">> },
      extraer_circuito_infotec |->
        { <<"A", " ", "-", " ", "B", " ", "2", "2", "0", "K", "V">>,
          <<"A", " ", "-", " ", "B">>,
          <<"A", " ", "-", " ", "B", "C", "1">> } ]

\* the roman numerals of the operational names and their circuit numbers
NumeralesRomanos ==
    { << <<"I">>, 1 >>, << <<"I", "I">>, 2 >>, << <<"I", "I", "I">>, 3 >>,
      << <<"I", "V">>, 4 >>, << <<"V">>, 5 >>, << <<"V", "I">>, 6 >> }

NumerosDeCircuito == { <<"1">>, <<"2">>, <<"1", "2">> }

\* circuit markers per source: << text, circuit number >>
Marcadores ==
    [ extraer_circuito_ent |->
        { << <<"_">> \o n \o <<"d", "e">> \o m, Entero(n) >> :
            n \in NumerosDeCircuito, m \in { <<"2">>, <<"1", "2">> } },
      extraer_circuito_op |->
        { << e \o k[1], k[2] >> : e \in Espacios, k \in NumeralesRomanos }
        \cup { << e \o <<"C">> \o n, Entero(n) >> :
                 e \in Espacios, n \in NumerosDeCircuito },
      extraer_circuito_infotec |->
        { << e \o <<"C">> \o n, Entero(n) >> :
            e \in Espacios, n \in NumerosDeCircuito } ]

\* each extractor with the names of its source, with and without a marker
EntradasDeCircuito ==
    UNION { { << f, b \o k[1] >> :
                b \in SinMarcador[f],
                k \in Marcadores[f] \cup { << <<>>, 0 >> } } :
            f \in ExtractoresDeCircuito }

\* the columns of a row of homologar_lineas that resumen_homologacion reads;
\* of match_linnom it only reads whether it is present
ColumnasDeResumen(fila) ==
    [ match             |-> IF notna(fila.match) THEN Some("LinNom") ELSE None,
      confianza         |-> fila.confianza,
      requiere_revision |-> fila.requiere_revision,
      match_invertido   |-> fila.match_invertido ]

\* the rows homologar_lineas emits for a reference row and a pool of no
\* candidate or of one candidate
FilasHomologadas ==
    { ColumnasDeResumen(ResultadoLineas(row, MejorInicial)) : row \in FilasEnt }
    \cup
    { ColumnasDeResumen(
          ResultadoLineas(row, IteracionOp(row, MejorInicial, info_op))) :
        row \in FilasEnt, info_op \in LineasOpInfo }

\* the batches of up to MaxLote rows that homologar_lineas returns
LotesHomologados ==
    UNION { [ 1..n -> FilasHomologadas ] : n \in 0..MaxLote }

\* nameplate values of a transformer after pd.to_numeric: missing, negative,
\* zero or positive
PotenciasYTensiones == { None, Some(0 - 1), Some(0), Some(1), Some(2) }

Impedancias == { None, Some(0), Some(2), Some(5) }

Perdidas == { None, Some(0), Some(10), Some(50) }

DatosDeTransformador ==
    [ S_MVA : PotenciasYTensiones, V_kV : PotenciasYTensiones,
      Z_percent : Impedancias, Pcu_kW : Perdidas ]

\* bus names of operation: one word, two words, a name that ends in a two
\* digit token, a name with a two digit token inside, a name that ends in a
\* word of roman letters
BarrasOperacion ==
    { <<"A", "b">>,
      <<"A", "b", " ", "C", "d">>,
      <<"A", "b", " ", "1", "2">>,
      <<"A", "b", " ", "6", "6", " ", "C", "d">>,
      <<"A", "b", " ", "V">> }

VoltajesOperacion == { <<"2", "2", "0">>, <<"1", "1", "0">>, <<"2", "3">> }

\* nothing, a roman numeral or C<n> after the second voltage
MarcadoresOperacion ==
    { <<>>, <<" ", "I">>, <<" ", "I", "I">>, <<" ", "C", "1">> }

EtiquetaCardones ==
    <<"C", "a", "r", "d", "o", "n", "e", "s", " ", "2", "2", "0", "-", ">",
      "C", "a", "r", "d", "o", "n", "e", "s", " ", "1", "1", "0", " ", "I">>

\* names 'A Va->B Vb' with an optional circuit marker, the example of the
\* test script, and names without an arrow
NombresOperacion ==
    { a \o <<" ">> \o va \o <<"-", ">">> \o b \o <<" ">> \o vb \o m :
        a \in BarrasOperacion, va \in VoltajesOperacion,
        b \in BarrasOperacion, vb \in VoltajesOperacion,
        m \in MarcadoresOperacion }
    \cup { EtiquetaCardones }
    \cup { a \o <<" ">> \o va : a \in BarrasOperacion, va \in VoltajesOperacion }
    \cup { <<"A", "b", " ", "2", "2", "0", " ", "-", " ", "C", "d", " ", "2", "2", "0">> }

EntradasDeTexto ==
    (Normalizadores \X Etiquetas)
    \cup ({ "normalizar_barra_ent", "expandir_abreviaciones" }
            \X EtiquetasAbreviadas)
    \cup ({ "es_transformador" } \X NombresDeLinea)
    \cup ({ "extraer_barras_infotecnica" } \X NombresInfotec)
    \cup EntradasDeCircuito
    \cup ({ "resumen_homologacion" } \X LotesHomologados)
    \cup ({ "calcular_similitud_barras" } \X ParesDeSimilitud)
    \cup ({ "calcular_rx_transformador" } \X DatosDeTransformador)
    \cup ({ "extraer_barras_de_linnom" } \X NombresOperacion)

InitTexto ==
    /\ pc = "llamar"
    /\ \E e \in EntradasDeTexto : funcion = e[1] /\ entrada = e[2]
    /\ salida = None
    /\ HomologacionSinUso
    /\ ReemplazoSinUso
    /\ PrincipalSinUso

\* the normalizer is applied to a raw label
LlamarNormalizador ==
    /\ pc = "llamar"
    /\ funcion \in Normalizadores
    /\ salida' = Some(Normalizar(funcion, entrada))
    /\ pc' = "normalizado"
    /\ UNCHANGED <<funcion, entrada, row_ent, mejor, n_vistos, resultado,
                   mes_trabajo, df_operacion, df_mantenimiento,
                   df_cruce, df_resultado,
                   llamadas>>

\* the normalizer is applied to its own output
RepetirNormalizador ==
    /\ pc = "normalizado"
    /\ entrada' = Val(salida)
    /\ salida' = Some(Normalizar(funcion, Val(salida)))
    /\ pc' = "renormalizado"
    /\ UNCHANGED <<funcion, row_ent, mejor, n_vistos, resultado,
                   mes_trabajo, df_operacion, df_mantenimiento,
                   df_cruce, df_resultado,
                   llamadas>>

\* the abbreviation table is applied to a label
LlamarExpandir ==
    /\ pc = "llamar"
    /\ funcion = "expandir_abreviaciones"
    /\ salida' = Some(expandir_abreviaciones(entrada))
    /\ pc' = "fin"
    /\ UNCHANGED <<funcion, entrada, row_ent, mejor, n_vistos, resultado,
                   mes_trabajo, df_operacion, df_mantenimiento,
                   df_cruce, df_resultado,
                   llamadas>>

\* a reference line name is classified
LlamarEsTransformador ==
    /\ pc = "llamar"
    /\ funcion = "es_transformador"
    /\ salida' = Some(es_transformador(entrada))
    /\ pc' = "fin"
    /\ UNCHANGED <<funcion, entrada, row_ent, mejor, n_vistos, resultado,
                   mes_trabajo, df_operacion, df_mantenimiento,
                   df_cruce, df_resultado,
                   llamadas>>

\* a name of the technical registry is parsed
LlamarExtraerBarras ==
    /\ pc = "llamar"
    /\ funcion = "extraer_barras_infotecnica"
    /\ salida' = Some(extraer_barras_infotecnica(entrada))
    /\ pc' = "fin"
    /\ UNCHANGED <<funcion, entrada, row_ent, mejor, n_vistos, resultado,
                   mes_trabajo, df_operacion, df_mantenimiento,
                   df_cruce, df_resultado,
                   llamadas>>

\* the circuit number is extracted from a name
LlamarExtraerCircuito ==
    /\ pc = "llamar"
    /\ funcion \in ExtractoresDeCircuito
    /\ salida' = Some(ExtraerCircuito(funcion, entrada))
    /\ pc' = "fin"
    /\ UNCHANGED <<funcion, entrada, row_ent, mejor, n_vistos, resultado,
                   mes_trabajo, df_operacion, df_mantenimiento,
                   df_cruce, df_resultado,
                   llamadas>>

\* the summary of a batch is taken
LlamarResumen ==
    /\ pc = "llamar"
    /\ funcion = "resumen_homologacion"
    /\ salida' = Some(resumen_homologacion(entrada))
    /\ pc' = "fin"
    /\ UNCHANGED <<funcion, entrada, row_ent, mejor, n_vistos, resultado,
                   mes_trabajo, df_operacion, df_mantenimiento,
                   df_cruce, df_resultado,
                   llamadas>>

\* the similarity of two keys is computed
LlamarSimilitud ==
    /\ pc = "llamar"
    /\ funcion = "calcular_similitud_barras"
    /\ salida' = Some(calcular_similitud_barras(entrada[1], entrada[2]))
    /\ pc' = "fin"
    /\ UNCHANGED <<funcion, entrada, row_ent, mejor, n_vistos, resultado,
                   mes_trabajo, df_operacion, df_mantenimiento,
                   df_cruce, df_resultado,
                   llamadas>>

\* R and X of one transformer are computed
LlamarCalcularRX ==
    /\ pc = "llamar"
    /\ funcion = "calcular_rx_transformador"
    /\ salida' = Some(calcular_rx_transformador(entrada.S_MVA, entrada.V_kV,
                                                entrada.Z_percent,
                                                entrada.Pcu_kW))
    /\ pc' = "fin"
    /\ UNCHANGED <<funcion, entrada, row_ent, mejor, n_vistos, resultado,
                   mes_trabajo, df_operacion, df_mantenimiento,
                   df_cruce, df_resultado,
                   llamadas>>

\* an operation name is parsed
LlamarExtraerBarrasDeLinnom ==
    /\ pc = "llamar"
    /\ funcion = "extraer_barras_de_linnom"
    /\ salida' = Some(extraer_barras_de_linnom(entrada))
    /\ pc' = "fin"
    /\ UNCHANGED <<funcion, entrada, row_ent, mejor, n_vistos, resultado,
                   mes_trabajo, df_operacion, df_mantenimiento,
                   df_cruce, df_resultado, llamadas>>

NextTexto ==
    \/ LlamarNormalizador
    \/ RepetirNormalizador
    \/ LlamarExpandir
    \/ LlamarEsTransformador
    \/ LlamarExtraerBarras
    \/ LlamarExtraerCircuito
    \/ LlamarResumen
    \/ LlamarSimilitud
    \/ LlamarCalcularRX
    \/ LlamarExtraerBarrasDeLinnom

SpecTexto == InitTexto /\ [][NextTexto]_vars

(***************************************************************************)
(* Properties of the text functions                                        *)
(***************************************************************************)
\* C14: a normalizer applied to its own output returns it unchanged
C14_NormalizarIdempotente ==
    pc = "renormalizado" => Val(salida) = entrada

\* the entries of the abbreviation table whose key occurs in the label
ClavesEnEtiqueta(texto) ==
    { k \in 1..Len(ABREVIACIONES) : Contiene(ABREVIACIONES[k][1], upper(texto)) }

NormalizadaComoReferencia ==
    pc = "normalizado" /\ funcion = "normalizar_barra_ent"

BaseDeLado(lado) ==
    LET s == SinFinal(lado, Finales(lado, Digitos))
    IN SinFinal(s, Finales(s, { "_" }))

\* the trailing voltage of one side of a line name
VoltajeDeLado(lado) ==
    Entero(SubSeq(lado, Len(lado) - Finales(lado, Digitos) + 1, Len(lado)))

Clasificada ==
    /\ pc = "fin" /\ funcion = "es_transformador"
    /\ Len(SplitFlecha(entrada)) = 2

LadoA == SplitFlecha(entrada)[1]
LadoB == SplitFlecha(entrada)[2]

\* C16: a line name 'a->b' is classified as a transformer if and only if
\* the two sides have the same base name, ignoring case, once the trailing
\* voltage and its padding are stripped, and their voltages differ by more
\* than 5 kV
C16_TransformadorSiiMismaBase ==
    Clasificada =>
        (Val(salida) <=>
            /\ upper(BaseDeLado(LadoA)) = upper(BaseDeLado(LadoB))
            /\ Abs(VoltajeDeLado(LadoA) - VoltajeDeLado(LadoB))
                   > DiferenciaTransformador)

\* C17: a reference that homologar_lineas reports as a transformer is never
\* matched with a candidate whose two ends are distinct stations
C17_TransformadorSinLinea ==
    (Emitido /\ Fila.funcion = "homologar_lineas"
        /\ Fila.es_transformador /\ notna(Fila.match))
    => Candidato.barra_a = Candidato.barra_b

\* the name with every en dash written as a hyphen
ConGuion(nombre) ==
    [ i \in 1..Len(nombre) |->
        IF nombre[i] = GuionLargo THEN "-" ELSE nombre[i] ]

\* C18: for a name that parses into two buses and a voltage when it is
\* written with hyphens, extraer_barras_infotecnica returns the same triple
\* when the name is written with an en dash
C18_GuionLargoComoGuion ==
    (pc = "fin" /\ funcion = "extraer_barras_infotecnica"
        /\ HayMatch(ConGuion(entrada), FALSE))
    => Val(salida) = extraer_barras_infotecnica(ConGuion(entrada))

CircuitoExtraido == pc = "fin" /\ funcion \in ExtractoresDeCircuito

\* C19: each circuit extractor returns the circuit number of the marker its
\* name ends in ('_<n>de<m>' in the reference source, a roman numeral I..VI
\* or 'C<n>' in the operational source, 'C<n>' in the technical registry),
\* and returns no value, never 0, for a name without a marker
C19_CircuitoSegunMarcador ==
    CircuitoExtraido =>
        \A b \in SinMarcador[funcion] :
            /\ entrada = b => Val(salida) = None
            /\ \A k \in Marcadores[funcion] :
                   entrada = b \o k[1] => Val(salida) = Some(k[2])

\* an operational name ending in ' VI' gave circuit 6, and a name without a
\* marker gave no circuit
C19_Testigo ==
    /\ CircuitoExtraido
    /\ funcion = "extraer_circuito_op"
    /\ \E b \in SinMarcador[funcion] : entrada = b \o <<" ", "V", "I">>
    /\ Val(salida) = Some(6)

\* C20: an iteration over the pool changes the best candidate only when it
\* raises the best score, so the first candidate that attains the maximum
\* is kept and a later candidate with an equal score never replaces it
C20_EmpateConservaPrimero ==
    [][ mejor' # mejor => mejor'.mejor_confianza > mejor.mejor_confianza ]_vars

\* two candidates were compared with a reference, the best one is kept, and
\* another candidate of the pool attains the same score without replacing it
C20_Testigo ==
    /\ pc = "homologar_lineas"
    /\ n_vistos = 2
    /\ notna(mejor.mejor_match)
    /\ \E info_op \in LineasOpInfo :
          /\ info_op # Candidato
          /\ IteracionOp(row_ent, MejorInicial, info_op).mejor_confianza
                 = mejor.mejor_confianza
          /\ IteracionOp(row_ent, mejor, info_op) = mejor

Resumido == pc = "fin" /\ funcion = "resumen_homologacion"

\* C21: in the summary of every batch of homologar_lineas the matched and
\* unmatched rows add up to the total, the matched rows are the rows of the
\* three tiers from 50 up, and the unmatched rows are the rows below 50
C21_ResumenConsistente ==
    Resumido =>
        LET r == Val(salida)
        IN /\ r.con_match + r.sin_match = r.total_lineas
           /\ r.con_match
                = r.confianza_90_100 + r.confianza_80_89 + r.confianza_50_79
           /\ r.sin_match = r.confianza_bajo_50

SimilitudCalculada == pc = "fin" /\ funcion = "calcular_similitud_barras"

\* one of the two keys, with its spaces removed, is a substring of the other
UnaContieneALaOtra(barra_ent, barra_op) ==
    \/ Contiene(SinEspacios(barra_ent), SinEspacios(barra_op))
    \/ Contiene(SinEspacios(barra_op), SinEspacios(barra_ent))

\* C22: when one key with its spaces removed is a substring of the other
\* with its spaces removed, calcular_similitud_barras returns at least 90
C22_BonusPorContenido ==
    (SimilitudCalculada /\ UnaContieneALaOtra(entrada[1], entrada[2]))
    => Val(salida) >= BonusContenido * Escala

\* 'cd' against 'acdb': both ratios are 66.7 and the result is exactly 90
C22_Testigo ==
    /\ SimilitudCalculada
    /\ entrada = << <<"c", "d">>, <<"a", "c", "d", "b">> >>
    /\ fuzz_ratio(entrada[1], entrada[2]) < BonusContenido * Escala
    /\ Val(salida) = BonusContenido * Escala

RXCalculado == pc = "fin" /\ funcion = "calcular_rx_transformador"

\* the input has a missing value, a non-positive S or V, or Z%^2 < R%^2
DatosInvalidos(d) ==
    \/ isna(d.S_MVA) \/ isna(d.V_kV) \/ isna(d.Z_percent) \/ isna(d.Pcu_kW)
    \/ Val(d.S_MVA) <= 0
    \/ Val(d.V_kV) <= 0
    \/ (Val(d.Z_percent) * Val(d.S_MVA) * 10) * (Val(d.Z_percent) * Val(d.S_MVA) * 10)
           < Val(d.Pcu_kW) * Val(d.Pcu_kW)

\* C23: calcular_rx_transformador never raises; it returns R and X, both
\* present, with no reason, or no R, no X and a non-empty reason; a missing
\* S, V, Z% or Pcu, a non-positive S or V, and Z%^2 < R%^2 each give the
\* second outcome
C23_RXoMotivo ==
    RXCalculado =>
        LET r == Val(salida)
            calculado == notna(r.R_ohm) /\ notna(r.X_ohm) /\ isna(r.motivo_error)
            rechazado == /\ isna(r.R_ohm) /\ isna(r.X_ohm)
                         /\ notna(r.motivo_error)
                         /\ Val(r.motivo_error) # ""
        IN /\ isna(r.excepcion)
           /\ calculado \/ rechazado
           /\ DatosInvalidos(entrada) => rechazado

\* S = 1 MVA, Pcu = 50 kW gives R% = 5 against Z% = 2: rejected for
\* Z%^2 < R%^2
C23_Testigo ==
    /\ RXCalculado
    /\ entrada = [ S_MVA |-> Some(1), V_kV |-> Some(2), Z_percent |-> Some(2),
                   Pcu_kW |-> Some(50) ]
    /\ isna(Val(salida).R_ohm)
    /\ notna(Val(salida).motivo_error)

\* the best candidate so far is an operation line
MejorEsLineaOp ==
    notna(mejor.mejor_match) /\ "tipo_instalacion" \notin DOMAIN Candidato

\* the four voltages the adjustment compares are present
CuatroVoltajes ==
    /\ notna(row_ent.voltaje_a_nombre) /\ notna(row_ent.voltaje_b_nombre)
    /\ notna(Candidato.voltaje_a) /\ notna(Candidato.voltaje_b)

\* the base score of the best candidate: the larger of the score of the
\* normal and of the swapped orientation
PuntajeBase ==
    Max(Min(Similitud[<<row_ent.barra_a_ent, Candidato.barra_a>>],
            Similitud[<<row_ent.barra_b_ent, Candidato.barra_b>>]),
        Min(Similitud[<<row_ent.barra_a_ent, Candidato.barra_b>>],
            Similitud[<<row_ent.barra_b_ent, Candidato.barra_a>>]))

\* both sides of the reference name are within 5 kV of the sides of the
\* best candidate they face under the chosen orientation
VoltajesAlineados ==
    LET lado_a == IF mejor.match_invertido THEN Candidato.voltaje_b
                  ELSE Candidato.voltaje_a
        lado_b == IF mejor.match_invertido THEN Candidato.voltaje_a
                  ELSE Candidato.voltaje_b
    IN /\ Abs(Val(row_ent.voltaje_a_nombre) - Val(lado_a)) <= 5
       /\ Abs(Val(row_ent.voltaje_b_nombre) - Val(lado_b)) <= 5

\* C24: the score of a candidate of homologar_lineas, seen when it becomes
\* the best one, is its base score plus 2 when the four voltages are present
\* and both sides line up within 5 kV under the chosen orientation, minus 3
\* when they are present and do not, and the base score when one is missing
C24_AjustePorVoltaje ==
    MejorEsLineaOp =>
        mejor.mejor_confianza =
            PuntajeBase + (IF ~ CuatroVoltajes THEN 0
                           ELSE IF VoltajesAlineados THEN 2 * Escala
                           ELSE 0 - 3 * Escala)

\* a candidate with both voltages against a name with 110 and 23 kV: the
\* second side does not line up and the score is the base score minus 3
C24_Testigo ==
    /\ MejorEsLineaOp
    /\ CuatroVoltajes
    /\ ~ VoltajesAlineados
    /\ mejor.mejor_confianza = PuntajeBase - 3 * Escala

(***************************************************************************)
(* main (src/main.py)                                                      *)
(***************************************************************************)
\* what the user gives as the month: well-formed months, malformed ones,
\* the empty string, a month between spaces and a month ended by a newline
TextosDeMes ==
    { <<"2", "0", "2", "5", "-", "0", "6">>,
      <<"2", "0", "2", "5", "-", "1", "2">>,
      <<"2", "0", "2", "4", "-", "1", "0">>,
      <<>>,
      <<"2", "0", "2", "5">>,
      <<"2", "0", "2", "5", "-", "6">>,
      <<"2", "0", "2", "5", "-", "1", "3">>,
      <<"2", "0", "2", "5", "-", "0", "0">>,
      <<"2", "0", "2", "5", "/", "0", "6">>,
      <<"2", "0", "2", "5", "-", "0", "6", "-", "0", "1">>,
      <<" ", "2", "0", "2", "5", "-", "0", "6", " ">>,
      <<"2", "0", "2", "5", "-", "0", "6", "\n">> }

\* lines 36-39: the month comes from the command line or is typed; a typed
\* line has no newline
EntradasDeMain ==
    { [ origen |-> o, texto |-> t ] :
        o \in { "argv", "input" }, t \in TextosDeMes }
    \ { [ origen |-> "input", texto |-> t ] :
          t \in { u \in TextosDeMes : \E i \in 1..Len(u) : u[i] = "\n" } }

\* the calls of main after the validation, in program order (lines 54-185)
LlamadasDeMain ==
    << "cargar_lineas_operacion", "cargar_lineas_mantenimiento",
       "cargar_lineas_ent", "consolidar_infotecnica_completa",
       "aplicar_reemplazo_por_mes", "homologar_lineas",
       "resumen_homologacion", "homologar_con_infotecnica",
       "df_final.to_csv", "df_infotec.to_csv" >>

InitMain ==
    /\ pc = "main"
    /\ funcion = "main"
    /\ entrada \in EntradasDeMain
    /\ salida = None
    /\ llamadas = <<>>
    /\ HomologacionSinUso
    /\ ReemplazoSinUso

\* lines 36-39: sys.argv[1], or input().strip()
LeerMes ==
    /\ pc = "main"
    /\ mes_trabajo' = IF entrada.origen = "argv" THEN entrada.texto
                      ELSE Strip(entrada.texto, { " ", "\t", "\n" })
    /\ pc' = "validar"
    /\ UNCHANGED <<row_ent, mejor, n_vistos, resultado, df_operacion,
                   df_mantenimiento, df_cruce, df_resultado, funcion,
                   entrada, salida, llamadas>>

\* lines 41-44: an empty or invalid month ends the run with return None
RechazarMes ==
    /\ pc = "validar"
    /\ mes_trabajo = <<>> \/ ~ validar_mes(mes_trabajo)
    /\ salida' = Some(None)
    /\ pc' = "fin"
    /\ UNCHANGED <<row_ent, mejor, n_vistos, resultado, mes_trabajo,
                   df_operacion, df_mantenimiento, df_cruce, df_resultado,
                   funcion, entrada, llamadas>>

\* line 46: the month passed the validation
AceptarMes ==
    /\ pc = "validar"
    /\ ~ (mes_trabajo = <<>> \/ ~ validar_mes(mes_trabajo))
    /\ pc' = LlamadasDeMain[1]
    /\ UNCHANGED <<row_ent, mejor, n_vistos, resultado, mes_trabajo,
                   df_operacion, df_mantenimiento, df_cruce, df_resultado,
                   funcion, entrada, salida, llamadas>>

\* the k-th call of main returns and main goes on to the next one
Llamar(k) ==
    /\ pc = LlamadasDeMain[k]
    /\ llamadas' = Append(llamadas, LlamadasDeMain[k])
    /\ pc' = IF k < Len(LlamadasDeMain) THEN LlamadasDeMain[k + 1]
             ELSE "return"
    /\ UNCHANGED <<row_ent, mejor, n_vistos, resultado, mes_trabajo,
                   df_operacion, df_mantenimiento, df_cruce, df_resultado,
                   funcion, entrada, salida>>

\* lines 54-66: the four sources are loaded
CargarOperacion == Llamar(1)

CargarMantenimiento == Llamar(2)

CargarEnt == Llamar(3)

CargarInfotecnica == Llamar(4)

\* line 77
ResolverReemplazos == Llamar(5)

\* lines 89-91
HomologarLineas == Llamar(6)

ResumirHomologacion == Llamar(7)

\* line 136
HomologarConInfotecnica == Llamar(8)

\* lines 179 and 185
ExportarFinal == Llamar(9)

ExportarInfotecnica == Llamar(10)

\* the k-th call of main raises and the exception ends main
LlamadaFalla ==
    /\ \E k \in 1..Len(LlamadasDeMain) : pc = LlamadasDeMain[k]
    /\ llamadas' = Append(llamadas, pc)
    /\ pc' = "excepcion"
    /\ UNCHANGED <<row_ent, mejor, n_vistos, resultado, mes_trabajo,
                   df_operacion, df_mantenimiento, df_cruce, df_resultado,
                   funcion, entrada, salida>>

\* line 194: return df_final
Retornar ==
    /\ pc = "return"
    /\ salida' = Some(Some("df_final"))
    /\ pc' = "fin"
    /\ UNCHANGED <<row_ent, mejor, n_vistos, resultado, mes_trabajo,
                   df_operacion, df_mantenimiento, df_cruce, df_resultado,
                   funcion, entrada, llamadas>>

NextMain ==
    \/ LeerMes
    \/ RechazarMes
    \/ AceptarMes
    \/ CargarOperacion
    \/ CargarMantenimiento
    \/ CargarEnt
    \/ CargarInfotecnica
    \/ ResolverReemplazos
    \/ HomologarLineas
    \/ ResumirHomologacion
    \/ HomologarConInfotecnica
    \/ ExportarFinal
    \/ ExportarInfotecnica
    \/ LlamadaFalla
    \/ Retornar

SpecMain == InitMain /\ [][NextMain]_vars

\* the month is YYYY-MM with a month from 01 to 12
EsAnioMes(mes) ==
    /\ Len(mes) = 7
    /\ \A i \in 1..4 : EsDigito(mes[i])
    /\ mes[5] = "-"
    /\ EsDigito(mes[6]) /\ EsDigito(mes[7])
    /\ 1 <= Entero(<<mes[6], mes[7]>>) /\ Entero(<<mes[6], mes[7]>>) <= 12

\* every call of b in the run so far comes after a call of a
Antes(a, b) ==
    \A j \in 1..Len(llamadas) :
        llamadas[j] = b => \E i \in 1..(j - 1) : llamadas[i] = a

MesLeido == funcion = "main" /\ pc # "main"

\* C25: main validates the month first: with a month that is empty or not
\* YYYY-MM with a month from 01 to 12 it makes no call (no source loaded, no
\* resolver, no matcher, no export) and returns None; otherwise the resolver
\* runs before the ENT-operation matcher, that before the Infotecnica
\* matcher, and that before the export
C25_MesValidadoPrimero ==
    MesLeido =>
        /\ ~ EsAnioMes(mes_trabajo) =>
              /\ llamadas = <<>>
              /\ pc \in { "validar", "fin" }
              /\ pc = "fin" => salida = Some(None)
        /\ Antes("aplicar_reemplazo_por_mes", "homologar_lineas")
        /\ Antes("homologar_lineas", "homologar_con_infotecnica")
        /\ Antes("homologar_con_infotecnica", "df_final.to_csv")
        /\ Antes("homologar_con_infotecnica", "df_infotec.to_csv")

\* C26: in every returned row LinR_operacion_original is the operation R
\* when the override is active and the maintenance R replaced it, and is
\* missing otherwise; likewise LinX_operacion_original and X, each
\* independently of the other
C26_OriginalSiiReemplazado ==
    Resuelto =>
        \A i \in Filas :
            LET f == df_resultado[i]
                c == df_cruce[i]
                r_reemplazado == /\ f.hay_reemplazo /\ notna(c.man_LinR)
                                 /\ f.LinR = c.man_LinR
                x_reemplazado == /\ f.hay_reemplazo /\ notna(c.man_LinX)
                                 /\ f.LinX = c.man_LinX
            IN /\ f.LinR_operacion_original =
                      IF r_reemplazado THEN c.LinR ELSE None
               /\ f.LinX_operacion_original =
                      IF x_reemplazado THEN c.LinX ELSE None
               /\ (f.hay_reemplazo /\ isna(c.man_LinR)) => f.LinR = c.LinR
               /\ (f.hay_reemplazo /\ isna(c.man_LinX)) => f.LinX = c.LinX

\* an active override whose window carries X but no R: the operation X is
\* kept as provenance and there is no provenance for R
C26_Testigo ==
    /\ Resuelto
    /\ \E i \in Filas :
          /\ df_resultado[i].hay_reemplazo
          /\ isna(df_cruce[i].man_LinR)
          /\ notna(df_cruce[i].man_LinX)
          /\ df_resultado[i].LinR_operacion_original = None
          /\ df_resultado[i].LinX_operacion_original = Some(20)
          /\ df_resultado[i].LinX = Some(21)

BarrasExtraidas == pc = "fin" /\ funcion = "extraer_barras_de_linnom"

\* what the parser is to return for the name 'a va->b vb' and a marker
BarrasEsperadas(a, va, b, vb) ==
    [ barra_a |-> a, barra_b |-> b,
      voltaje_a |-> Some(Entero(va)), voltaje_b |-> Some(Entero(vb)) ]

\* C27: for every name 'A Va->B Vb' with an optional roman or C<n> marker
\* extraer_barras_de_linnom returns A, B, Va and Vb: each voltage is the last
\* token of its own side and the marker is not part of B, also when a bus
\* name contains a token of two or three digits
C27_BarrasYVoltajesPorLado ==
    BarrasExtraidas =>
        \A a \in BarrasOperacion, va \in VoltajesOperacion,
           b \in BarrasOperacion, vb \in VoltajesOperacion,
           m \in MarcadoresOperacion :
            entrada = a \o <<" ">> \o va \o <<"-", ">">> \o b \o <<" ">> \o vb \o m
            => Val(salida) = BarrasEsperadas(a, va, b, vb)

EnLineas == pc = "homologar_lineas"

EnInfotec == pc = "homologar_con_infotecnica"

\* the (adjusted) score of a candidate of the pool against the reference
PuntajeDe(c) ==
    LET p == Puntuar(row_ent.barra_a_ent, row_ent.barra_b_ent,
                     c.barra_a, c.barra_b)
    IN IF EnLineas THEN p.confianza + AjusteVoltaje(row_ent, c, p.invertido)
       ELSE p.confianza

\* the candidate passes the voltage filter and scores more than 0
PasaConPuntaje(c) ==
    /\ IF EnLineas THEN PasaVoltajeOp(row_ent, c)
       ELSE PasaVoltajeInfotec(row_ent, c)
    /\ PuntajeDe(c) > 0

\* the best candidate after one more iteration, over the candidate c
TrasIterar(c) ==
    IF EnLineas THEN IteracionOp(row_ent, mejor, c)
    ELSE IteracionInfotec(row_ent, mejor, c)

TransformadoresDispares ==
    { c \in InfotecInfo :
        /\ c.tipo_instalacion # "linea"
        /\ notna(c.voltaje) /\ notna(c.voltaje_secundario)
        /\ Abs(Val(c.voltaje) - Val(c.voltaje_secundario)) > 10 }

SoloEspacios(clave) == \A i \in 1..Len(clave) : clave[i] = " "

\* the name has neither an arrow nor the fallback separator ' - '
SinSeparador(linnom) ==
    /\ ~ Contiene(<<"-", ">">>, linnom)
    /\ ~ Contiene(<<" ", "-", " ">>, linnom)

\* C30: calcular_similitud_barras returns at least 90 when one of the two
\* keys is empty or only spaces; an operation name without an arrow parses
\* to an empty bus B, whose key is empty and scores at least 90 against the
\* key of every reference endpoint
C30_ClaveVaciaPuntuaNoventa ==
    /\ (SimilitudCalculada
          /\ (SoloEspacios(entrada[1]) \/ SoloEspacios(entrada[2])))
       => Val(salida) >= 90 * Escala
    /\ (BarrasExtraidas /\ SinSeparador(entrada)) =>
          /\ Val(salida).barra_b = <<>>
          /\ normalizar_barra_op(Val(salida).barra_b) = <<>>
          /\ \A k \in ClavesEnt \cup { ClaveLargaEnt } :
                calcular_similitud_barras(
                    k, normalizar_barra_op(Val(salida).barra_b)) >= 90 * Escala

\* the key 'ab' against the empty key: both ratios are 0 and the result is 90
C30_Testigo ==
    /\ SimilitudCalculada
    /\ entrada = << <<"a", "b">>, <<>> >>
    /\ fuzz_ratio(entrada[1], entrada[2]) = 0
    /\ fuzz_token_sort_ratio(entrada[1], entrada[2]) = 0
    /\ Val(salida) = 90 * Escala

=============================================================================
